---- MODULE Spec2Model ----
(***************************************************************************)
(* NetDocGen: the document pipeline (API service, parse worker, generate   *)
(* worker, broker queues, object store) and the diagram parser.            *)
(*                                                                         *)
(* JSON values are modelled by strings; NULL stands for None / a missing   *)
(* key and NUM for a value of the wrong shape (a JSON number).  A message  *)
(* body is a record whose DOMAIN is the set of keys it carries.            *)
(***************************************************************************)
EXTENDS Integers, Sequences, FiniteSets, TLC

\* ------------------------------------------------------------------ bounds
MaxInjected == 3
MaxManual == 3
MaxPages == 2
MaxShapes == 2
MaxCalls == 2
MaxInventories == 2
MaxDevices == 4
MaxLinks == 6
MaxNodes == 3
MaxEdges == 2
MaxDetails == 1
MaxHandlers == 2

\* ------------------------------------------------------------ value helpers
NULL == "null"
NUM == "#5"

\* str.lower() on the strings used here
Lower(s) ==
  CASE s = "Switch" -> "switch" [] s = "Router" -> "router"
    [] s = ".VSDX" -> ".vsdx"
    [] s = " RT-01" -> " rt-01" [] s = " FW-01" -> " fw-01"
    [] s = "1Gbps Ethernet" -> "1gbps ethernet"
    [] s = " 1Gbps Ethernet" -> " 1gbps ethernet"
    [] s = "IPSec VPN" -> "ipsec vpn" [] s = " IPSec VPN" -> " ipsec vpn"
    [] s = "Shape_5" -> "shape_5" [] s = "Cisco" -> "cisco"
    [] OTHER -> s
Falsy(v) == v \in {NULL, ""}
IsStr(v) == v \notin {NULL, NUM}
PyStr(v) == IF v = NULL THEN "None" ELSE v
Get(m, k) == IF k \in DOMAIN m THEN m[k] ELSE NULL
Put(s, k, v) == [x \in (DOMAIN s) \cup {k} |-> IF x = k THEN v ELSE s[x]]
EmptyStore == [x \in {} |-> NULL]
Range(s) == {s[i] : i \in DOMAIN s}

Docs == {"d1"}
ProjectOf(d) == "p1"

UPLOADED == "uploaded"
PARSING == "parsing"
PARSED == "parsed"
GENERATING == "generating"
COMPLETED == "completed"
FAILED == "failed"
ABSENT == "absent"

Buckets == [uploads |-> "netdocgen-uploads", parsed |-> "netdocgen-parsed",
            generated |-> "netdocgen-generated"]

\* ---------------------------------------------------------------- variables
VARIABLES
  status,            \* Document.status, ABSENT before the row exists
  parsed_data_path,  \* Document.parsed_data_path
  generated_files,   \* Document.generated_files, a set of <<format, path>>
  upload_pc,         \* position of upload_document for each document
  uploads,           \* bucket netdocgen-uploads: object name -> content
  parsed,            \* bucket netdocgen-parsed: object name -> artifact
  generated,         \* bucket netdocgen-generated: object name -> content
  qParse,            \* queue bound to document.parse.visio
  qParseDone,        \* queue bound to document.parse.complete
  qGen,              \* queue bound to document.generate
  qGenDone,          \* queue bound to document.generate.complete
  injected,          \* number of requests published by other producers
  manual,            \* number of generate / refresh-status calls made by users
  lastRun,           \* trace of the most recent consumer callback run
  vis,               \* parse_file: the pages of the open VisioFile
  result,            \* parse_file: the returned dictionary
  parse_call,        \* parse_file: the path it was called with and what it raised
  parsed_data,       \* enrich_parsed_data: the dictionary passed in
  enriched,          \* enrich_parsed_data: <<the dictionary returned>>, <<>> before
  device_cache,      \* DeviceResolver.device_cache of one resolver, in insertion order
  resolve_call,      \* resolve_devices: the shapes passed last and the devices returned
  inventory,         \* generate_device_inventory: the lists returned for those devices
  runs,              \* two separate runs, each resolving with a resolver of its own
  topology,          \* the generator's input: how many shapes and connections it holds
  network_metrics,   \* _calculate_network_metrics: <<the dictionary returned>>, <<>> before
  diagram_data,      \* generate_documentation: the parsed diagram handed to the generator
  enhanced_data,     \* generate_documentation: one [args, model] per call made on diagram_data
  tasks,             \* parse worker: the process_parse_request task of each delivery
  visio_file,        \* parse worker: VisioParser.visio_file of the one shared parser
  temp_files,        \* parse worker: the temporary files on disk, path -> bytes
  parsed_objects,    \* parse worker: the parsed bucket, object name -> artifact
  completions        \* parse worker: the messages published to parse-complete, in order

dbVars == <<status, parsed_data_path, generated_files, upload_pc>>
storeVars == <<uploads, parsed, generated>>
queueVars == <<qParse, qParseDone, qGen, qGenDone>>
pipeVars == <<dbVars, storeVars, queueVars, injected, manual, lastRun>>
parseVars == <<vis, result, parse_call>>
enrichVars == <<parsed_data, enriched>>
resolverVars == <<device_cache, resolve_call, inventory, runs>>
metricsVars == <<topology, network_metrics>>
generatorVars == <<diagram_data, enhanced_data>>
taskVars == <<tasks, visio_file, temp_files, parsed_objects, completions>>
libVars == <<parseVars, enrichVars, resolverVars, metricsVars, generatorVars, taskVars>>
\* what the parser / the enrichment / the resolver / the metrics leave alone
otherThanParse == <<pipeVars, enrichVars, resolverVars, metricsVars, generatorVars, taskVars>>
otherThanEnrich == <<pipeVars, parseVars, resolverVars, metricsVars, generatorVars, taskVars>>
otherThanResolver == <<pipeVars, parseVars, enrichVars, metricsVars, generatorVars, taskVars>>
otherThanMetrics == <<pipeVars, parseVars, enrichVars, resolverVars, generatorVars, taskVars>>
otherThanGenerator == <<pipeVars, parseVars, enrichVars, resolverVars, metricsVars, taskVars>>
otherThanTasks == <<pipeVars, parseVars, enrichVars, resolverVars, metricsVars, generatorVars>>
vars == <<pipeVars, libVars>>

\* ------------------------------------------------------------- object names
\* api/app/services/storage.py upload_visio_file: f"{document_id}{file_extension}"
UploadObjectName(document_id) == document_id \o ".vsdx"

\* MinioStorage.upload_file returns f"{bucket_name}/{object_name}"
StoragePath(bucket_type, object_name) == Buckets[bucket_type] \o "/" \o object_name

\* parser/src/main.py: parsed_path = f"{document_id}/parsed_data.json"
ParsedPath(document_id) == PyStr(document_id) \o "/parsed_data.json"

\* a name that carries the number of objects already in the bucket
StorageFilenameVersioned(document_id, format_type) ==
  PyStr(document_id) \o "/" \o format_type \o "/document."
    \o ToString(Cardinality(DOMAIN generated)) \o "." \o format_type

\* generator/src/main.py: f"{document_id}/{format_type}/document.{format_type}"
StorageFilename(document_id, format_type) ==
  PyStr(document_id) \o "/" \o format_type \o "/document." \o format_type

\* file_path.split("/", 1): the part after the first "/", the whole string
\* when it holds no "/".  Bucket names hold no "/".
KnownObjectNames == {UploadObjectName(d) : d \in Docs} \cup {"missing.vsdx"}
ObjectNameOf(file_path) ==
  IF \E b \in Range(Buckets), n \in KnownObjectNames : file_path = b \o "/" \o n
  THEN CHOOSE n \in KnownObjectNames :
         \E b \in Range(Buckets) : file_path = b \o "/" \o n
  ELSE file_path

\* -------------------------------------------------------------------- broker
\* MessageQueue.publish: json.dumps(message) routed to the queue bound to the
\* routing key; the call either publishes and returns, or raises.
Publish(q, message) == q \cup {message}

FormatsList(seq) == <<"list", seq>>
FormatsNull == <<"null">>
DefaultFormats == <<"html", "pdf", "markdown">>

\* MessageQueueService.publish_parse_request
ParseRequest(document_id, file_path, project_id) ==
  [document_id |-> document_id, file_path |-> file_path, project_id |-> project_id]

\* MessageQueueService.publish_generate_request (project_metadata, template,
\* organization, ai_analysis and supplemental_data are opaque payloads)
GenerateRequest(document_id, path, formats, project_id) ==
  [document_id |-> document_id, parsed_data_path |-> path,
   formats |-> FormatsList(formats), project_id |-> project_id]

NoRun == [handler |-> "none", msg |-> EmptyStore, decoded |-> FALSE, raised |-> FALSE,
          disposition |-> "none", steps |-> <<>>, attempts |-> <<>>,
          published |-> <<>>, loop |-> FALSE, rewrote |-> {}]

\* ---------------------------------------------------------------------- Init
PipeInit ==
  /\ status = [d \in Docs |-> ABSENT]
  /\ parsed_data_path = [d \in Docs |-> NULL]
  /\ generated_files = [d \in Docs |-> {}]
  /\ upload_pc = [d \in Docs |-> "none"]
  /\ uploads = EmptyStore
  /\ parsed = EmptyStore
  /\ generated = EmptyStore
  /\ qParse = {}
  /\ qParseDone = {}
  /\ qGen = {}
  /\ qGenDone = {}
  /\ injected = 0
  /\ manual = 0
  /\ lastRun = NoRun

NoResult ==
  [filename |-> NULL, shapes |-> <<>>, connections |-> <<>>, page_count |-> 0]
NoCall ==
  [exists |-> FALSE, suffix |-> NULL, vsdx_available |-> FALSE,
   error |-> "not called"]
ParseIdle ==
  /\ vis = <<>>
  /\ result = NoResult
  /\ parse_call = NoCall

EnrichIdle ==
  /\ parsed_data = [shapes |-> <<>>, connections |-> <<>>]
  /\ enriched = <<>>
\* DeviceResolver(): self.device_cache = {}; no call made yet
NoResolve == [calls |-> 0, shapes |-> <<>>, devices |-> <<>>]
NotRun == [done |-> FALSE, shapes |-> <<>>, devices |-> <<>>]
ResolverIdle ==
  /\ device_cache = <<>>
  /\ resolve_call = NoResolve
  /\ inventory = <<>>
  /\ runs = [k \in {1, 2} |-> NotRun]
MetricsIdle ==
  /\ topology = [shapes |-> 0, connections |-> 0]
  /\ network_metrics = <<>>
NoDiagram == [shapes |-> <<>>, connections |-> <<>>, given |-> FALSE]
GeneratorIdle ==
  /\ diagram_data = NoDiagram
  /\ enhanced_data = <<>>
NoTask == [pc |-> "idle"]
TasksIdle ==
  /\ tasks = [h \in 1..MaxHandlers |-> NoTask]
  /\ visio_file = NULL
  /\ temp_files = EmptyStore
  /\ parsed_objects = EmptyStore
  /\ completions = <<>>
LibIdle == ParseIdle /\ EnrichIdle /\ ResolverIdle /\ MetricsIdle /\ GeneratorIdle /\ TasksIdle

Init == PipeInit /\ LibIdle

\* ----------------------------------------------------- API: upload_document
FileContents == {"net1", "net2", "corrupt"}

\* Document(...status=UPLOADED); db.add; db.commit
UploadCreate(d) ==
  /\ status[d] = ABSENT
  /\ status' = [status EXCEPT ![d] = UPLOADED]
  /\ upload_pc' = [upload_pc EXCEPT ![d] = "created"]
  /\ UNCHANGED <<parsed_data_path, generated_files, storeVars, queueVars,
                 injected, manual, lastRun, libVars>>

\* storage_service.upload_visio_file, then status = PARSING and commit; on an
\* exception status = FAILED
UploadStore(d, content, fails) ==
  /\ upload_pc[d] = "created"
  /\ IF fails
     THEN /\ status' = [status EXCEPT ![d] = FAILED]
          /\ upload_pc' = [upload_pc EXCEPT ![d] = "done"]
          /\ UNCHANGED uploads
     ELSE /\ uploads' = Put(uploads, UploadObjectName(d), content)
          /\ status' = [status EXCEPT ![d] = PARSING]
          /\ upload_pc' = [upload_pc EXCEPT ![d] = "stored"]
  /\ UNCHANGED <<parsed_data_path, generated_files, parsed, generated,
                 queueVars, injected, manual, lastRun, libVars>>

\* mq_service.publish_parse_request; on an exception status = FAILED
UploadPublish(d, fails) ==
  /\ upload_pc[d] = "stored"
  /\ upload_pc' = [upload_pc EXCEPT ![d] = "done"]
  /\ IF fails
     THEN /\ status' = [status EXCEPT ![d] = FAILED]
          /\ UNCHANGED qParse
     ELSE /\ qParse' = Publish(qParse,
               ParseRequest(d, StoragePath("uploads", UploadObjectName(d)),
                            ProjectOf(d)))
          /\ UNCHANGED status
  /\ UNCHANGED <<parsed_data_path, generated_files, storeVars,
                 qParseDone, qGen, qGenDone, injected, manual, lastRun, libVars>>

\* ------------------------------------------------ API: generate_documentation
RequestableFormats == {<<"html">>, <<"html", "pdf", "bogus">>}

\* HTTP 400 and no change unless the status is PARSED; else GENERATING is
\* committed and the request published (a publish error leaves GENERATING)
GenerateDocumentation(d, formats, fails) ==
  /\ status[d] # ABSENT
  /\ manual < MaxManual
  /\ manual' = manual + 1
  /\ IF status[d] # PARSED
     THEN UNCHANGED <<status, qGen>>
     ELSE /\ status' = [status EXCEPT ![d] = GENERATING]
          /\ qGen' = IF fails THEN qGen
                     ELSE Publish(qGen, GenerateRequest(d, parsed_data_path[d],
                                                        formats, ProjectOf(d)))
  /\ UNCHANGED <<parsed_data_path, generated_files, upload_pc, storeVars,
                 qParse, qParseDone, qGenDone, injected, lastRun, libVars>>

\* ------------------------------------------------ API: refresh_document_status
\* downloads parsed/{document_id}/parsed_data.json; when that succeeds the row
\* with that id, whatever its status, is set to PARSED
RefreshDocumentStatus(d, fails) ==
  LET parsed_path == ParsedPath(d) IN
  /\ manual < MaxManual
  /\ manual' = manual + 1
  /\ IF fails \/ parsed_path \notin DOMAIN parsed \/ status[d] = ABSENT
     THEN UNCHANGED <<status, parsed_data_path>>
     ELSE /\ status' = [status EXCEPT ![d] = PARSED]
          /\ parsed_data_path' = [parsed_data_path EXCEPT ![d] = parsed_path]
  /\ UNCHANGED <<generated_files, upload_pc, storeVars, queueVars,
                 injected, lastRun, libVars>>

\* ------------------------------------------------------ MessageQueue.consume
\* json.loads(message.body.decode()) raises on a body that is not JSON
DecodeRaises(body) == "garbage" \in DOMAIN body

\* message.process() is entered with its default arguments: requeue=False
ProcessRequeue == FALSE

\* "async with message.process()": ack on a normal exit, reject(requeue) when
\* the block raises
Disposition(raised) ==
  IF ~raised THEN "ack" ELSE IF ProcessRequeue THEN "requeue" ELSE "reject"

\* the queue after the delivery of m has been settled
Settle(q, m, raised) == IF Disposition(raised) = "requeue" THEN q ELSE q \ {m}

\* the object names a run uploaded
Uploaded(steps) == {st[2] : st \in {x \in Range(steps) : x[1] = "uploaded"}}

\* trace of one callback run: the steps taken, the publish calls made
\* (attempts) and those that returned (published), whether the callback
\* raised, how the delivery was settled, whether the per-format loop was
\* reached, and the uploaded objects that existed before the run (rewrote)
RunRecord(handler, m, o, loop, before) ==
  [handler |-> handler, msg |-> m, decoded |-> ~DecodeRaises(m),
   raised |-> o.raised, disposition |-> Disposition(o.raised),
   steps |-> o.steps, attempts |-> o.attempts, published |-> o.published,
   loop |-> loop, rewrote |-> Uploaded(o.steps) \cap before]

Out(steps, attempts, published, raised) ==
  [steps |-> steps, attempts |-> attempts, published |-> published, raised |-> raised]

\* infrastructure faults of one run: the download raises, the upload raises,
\* the first / the second publish call of the run raises
NoFaults == [download |-> FALSE, upload |-> FALSE, pub1 |-> FALSE, pub2 |-> FALSE]
Faults == { NoFaults,
            [NoFaults EXCEPT !.download = TRUE],
            [NoFaults EXCEPT !.upload = TRUE],
            [NoFaults EXCEPT !.pub1 = TRUE],
            [NoFaults EXCEPT !.pub1 = TRUE, !.pub2 = TRUE] }

\* --------------------------------------------------------------- parse worker
\* tempfile.NamedTemporaryFile(suffix=".vsdx"): the name parse_file reports
TempNames == {"tmp.vsdx"}

\* VisioParser.parse_file on the downloaded bytes (the diagram itself is
\* modelled by ParseFile below; here only the counts matter)
ParseRaises(content) == content = "corrupt"
ParsedCounts(content) ==
  IF content = "net1" THEN [shapes |-> 3, connections |-> 2, page_count |-> 1]
  ELSE [shapes |-> 1, connections |-> 0, page_count |-> 2]

\* parse_file, enrich_parsed_data, then document_id / project_id / parsed_at
TopologyArtifact(content, tmp, document_id, project_id) ==
  [filename |-> tmp, shapes |-> ParsedCounts(content).shapes,
   connections |-> ParsedCounts(content).connections,
   page_count |-> ParsedCounts(content).page_count,
   defaults_applied |-> TRUE,
   document_id |-> document_id, project_id |-> project_id]

\* _handle_parse_error without its "if document_id" guard
HandleParseErrorUnguarded(document_id, error_message, f) ==
  LET message == [status |-> "failed", error |-> error_message,
                  document_id |-> document_id] IN
  IF f.pub1 THEN Out(<<>>, <<message>>, <<>>, TRUE)
  ELSE Out(<<>>, <<message>>, <<message>>, FALSE)

\* _handle_parse_error
HandleParseError(document_id, error_message, f) ==
  LET message == [status |-> "failed", error |-> error_message,
                  document_id |-> document_id] IN
  IF Falsy(document_id) THEN Out(<<>>, <<>>, <<>>, FALSE)
  ELSE IF f.pub1 THEN Out(<<>>, <<message>>, <<>>, TRUE)
  ELSE Out(<<>>, <<message>>, <<message>>, FALSE)

\* a completion message that reports the shape count as the connection count
ParseCompletedMiscounted(document_id, project_id, parsed_path, artifact) ==
  [document_id |-> document_id, project_id |-> project_id,
   status |-> "completed", parsed_path |-> parsed_path,
   shape_count |-> artifact.shapes,
   connection_count |-> artifact.shapes,
   page_count |-> artifact.page_count]

\* the completion message of process_parse_request
ParseCompleted(document_id, project_id, parsed_path, artifact) ==
  [document_id |-> document_id, project_id |-> project_id,
   status |-> "completed", parsed_path |-> parsed_path,
   shape_count |-> artifact.shapes,
   connection_count |-> artifact.connections,
   page_count |-> artifact.page_count]

\* process_parse_request: the steps taken, the publish calls made, those that
\* published, whether the callback raised, and the parsed bucket afterwards
ProcessParseRequest(m, f, tmp) ==
  LET document_id == Get(m, "document_id")
      file_path == Get(m, "file_path")
      project_id == Get(m, "project_id")
      canSplit == IsStr(file_path)
      object_name == ObjectNameOf(file_path)
      dlOk == canSplit /\ ~f.download /\ object_name \in DOMAIN uploads
      parseOk == dlOk /\ ~ParseRaises(uploads[object_name])
      upOk == parseOk /\ ~f.upload
      parsed_path == ParsedPath(document_id)
      artifact == TopologyArtifact(uploads[object_name], tmp, document_id, project_id)
      steps == (IF canSplit THEN <<(<<"download", object_name>>)>> ELSE <<>>)
               \o (IF dlOk THEN <<(<<"parse", tmp>>)>> ELSE <<>>)
               \o (IF parseOk THEN << <<"enrich", tmp>>, <<"upload", parsed_path>> >>
                   ELSE <<>>)
               \o (IF upOk THEN <<(<<"uploaded", parsed_path>>)>> ELSE <<>>)
      completed == ParseCompleted(document_id, project_id, parsed_path, artifact)
      error == IF ~canSplit THEN "TypeError" ELSE IF ~dlOk THEN "download failed"
               ELSE IF ~parseOk THEN "parse failed"
               ELSE IF ~upOk THEN "upload failed" ELSE "publish failed"
      failed == [document_id |-> document_id, project_id |-> project_id,
                 status |-> "failed", error |-> error]
      store == IF upOk THEN Put(parsed, parsed_path, artifact) ELSE parsed
      base ==
        IF Falsy(document_id)
        THEN HandleParseError(NULL, "Missing required field: document_id", f)
        ELSE IF Falsy(file_path)
        THEN HandleParseError(document_id, "Missing required field: file_path", f)
        ELSE IF Falsy(project_id)
        THEN HandleParseError(document_id, "Missing required field: project_id", f)
        ELSE IF upOk /\ ~f.pub1
        THEN Out(steps, <<completed>>, <<completed>>, FALSE)
        ELSE IF upOk
        THEN Out(steps, <<completed, failed>>,
                 IF f.pub2 THEN <<>> ELSE <<failed>>, f.pub2)
        ELSE Out(steps, <<failed>>, IF f.pub1 THEN <<>> ELSE <<failed>>, f.pub1)
      validated == ~Falsy(document_id) /\ ~Falsy(file_path) /\ ~Falsy(project_id)
  IN [run |-> base, store |-> IF validated THEN store ELSE parsed]

\* the parse worker's consumer callback, under MessageQueue.consume
ParserConsume(m, f, tmp) ==
  /\ m \in qParse
  /\ LET o == IF DecodeRaises(m)
              THEN [run |-> Out(<<>>, <<>>, <<>>, TRUE), store |-> parsed]
              ELSE ProcessParseRequest(m, f, tmp) IN
     /\ parsed' = o.store
     /\ qParseDone' = qParseDone \cup Range(o.run.published)
     /\ qParse' = Settle(qParse, m, o.run.raised)
     /\ lastRun' = RunRecord("parse", m, o.run, FALSE, DOMAIN parsed)
  /\ UNCHANGED <<dbVars, uploads, generated, qGen, qGenDone, injected, manual, libVars>>

\* ------------------------------------------------------------ generate worker
SupportedFormats == {"html", "pdf", "docx", "markdown"}
AllFormats == SupportedFormats \cup {"bogus"}

\* faults of one run: render / upload are the formats whose renderer / whose
\* upload raises
NoGenFaults == [download |-> FALSE, render |-> {}, upload |-> {},
                pub1 |-> FALSE, pub2 |-> FALSE]
GenFaults == { NoGenFaults,
               [NoGenFaults EXCEPT !.download = TRUE],
               [NoGenFaults EXCEPT !.render = {"html"}],
               [NoGenFaults EXCEPT !.upload = {"pdf"}],
               [NoGenFaults EXCEPT !.render = {"html"}, !.upload = {"pdf", "markdown"}],
               [NoGenFaults EXCEPT !.pub1 = TRUE],
               [NoGenFaults EXCEPT !.pub1 = TRUE, !.pub2 = TRUE] }

\* DocumentGenerator.generate_documentation raises for a format outside the
\* four supported ones, or when the renderer fails
RenderRaises(format_type, f) ==
  format_type \notin SupportedFormats \/ format_type \in f.render

\* generated_files[format_type] = storage_path on a dict kept in insertion order
DictSet(files, k, v) ==
  IF \E i \in DOMAIN files : files[i][1] = k
  THEN [i \in DOMAIN files |-> IF files[i][1] = k THEN <<k, v>> ELSE files[i]]
  ELSE Append(files, <<k, v>>)
DictKeys(files) == [i \in DOMAIN files |-> files[i][1]]

\* a loop that stops at the first format that fails
AfterFormatAbort(i, n, ok) == IF ok THEN i + 1 ELSE n + 1

\* "except Exception: ... Continue with other formats even if one fails":
\* the index handled after format i of n, whether or not it succeeded
AfterFormat(i, n, ok) == i + 1

\* the per-format loop of process_generation_request, from index i on
RECURSIVE FormatLoop(_, _, _, _, _, _)
FormatLoop(formats, i, document_id, data, f, acc) ==
  IF i > Len(formats) THEN acc
  ELSE LET format_type == formats[i]
           storage_filename == StorageFilename(document_id, format_type)
           rendered == ~RenderRaises(format_type, f)
           uploaded == rendered /\ format_type \notin f.upload
           steps == acc.steps \o <<(<<"generate", format_type>>)>>
                    \o (IF rendered THEN <<(<<"upload", storage_filename>>)>> ELSE <<>>)
                    \o (IF uploaded THEN <<(<<"uploaded", storage_filename>>)>> ELSE <<>>)
       IN FormatLoop(formats, AfterFormat(i, Len(formats), uploaded),
                     document_id, data, f,
            [steps |-> steps,
             files |-> IF uploaded
                       THEN DictSet(acc.files, format_type,
                                    StoragePath("generated", storage_filename))
                       ELSE acc.files,
             store |-> IF uploaded
                       THEN Put(acc.store, storage_filename,
                                [document_id |-> document_id,
                                 format |-> format_type, data |-> data])
                       ELSE acc.store])

\* a completion message that reports failure when no format was generated
GenerateCompletedOrFailed(document_id, project_id, formats, files) ==
  [document_id |-> document_id, project_id |-> project_id,
   status |-> IF files = <<>> THEN "failed" ELSE "completed",
   generated_files |-> Range(files),
   formats_completed |-> DictKeys(files),
   formats_failed |-> SelectSeq(formats, LAMBDA x : x \notin Range(DictKeys(files)))]

\* the completion message of process_generation_request
GenerateCompleted(document_id, project_id, formats, files) ==
  [document_id |-> document_id, project_id |-> project_id,
   status |-> "completed", generated_files |-> Range(files),
   formats_completed |-> DictKeys(files),
   formats_failed |-> SelectSeq(formats, LAMBDA x : x \notin Range(DictKeys(files)))]

\* process_generation_request
ProcessGenerationRequest(m, f) ==
  LET document_id == Get(m, "document_id")
      path == Get(m, "parsed_data_path")
      formats == IF "formats" \in DOMAIN m THEN m.formats ELSE FormatsList(<<"html">>)
      project_id == Get(m, "project_id")
      \* ', '.join(formats), before the try block
      joinRaises == formats[1] # "list"
      list == formats[2]
      pathOk == ~Falsy(path)
      dlOk == pathOk /\ IsStr(path) /\ ~f.download
              /\ path \in DOMAIN parsed
      data == parsed[path]
      pre == IF pathOk THEN <<(<<"download", path>>)>> ELSE <<>>
      loop == FormatLoop(list, 1, document_id, data, f,
                         [steps |-> pre, files |-> <<>>, store |-> generated])
      completed == GenerateCompleted(document_id, project_id, list, loop.files)
      error == IF ~pathOk THEN "parsed_data_path is required"
               ELSE IF ~dlOk THEN "download failed" ELSE "publish failed"
      failed == [document_id |-> document_id, project_id |-> project_id,
                 status |-> "failed", error |-> error]
  IN IF joinRaises
     THEN [run |-> Out(<<>>, <<>>, <<>>, TRUE), store |-> generated, loop |-> FALSE]
     ELSE IF ~dlOk
     THEN [run |-> Out(pre, <<failed>>, IF f.pub1 THEN <<>> ELSE <<failed>>, f.pub1),
           store |-> generated, loop |-> FALSE]
     ELSE IF ~f.pub1
     THEN [run |-> Out(loop.steps, <<completed>>, <<completed>>, FALSE),
           store |-> loop.store, loop |-> TRUE]
     ELSE [run |-> Out(loop.steps, <<completed, failed>>,
                       IF f.pub2 THEN <<>> ELSE <<failed>>, f.pub2),
           store |-> loop.store, loop |-> TRUE]

\* the generate worker's consumer callback, under MessageQueue.consume
GeneratorConsume(m, f) ==
  /\ m \in qGen
  /\ LET o == IF DecodeRaises(m)
              THEN [run |-> Out(<<>>, <<>>, <<>>, TRUE), store |-> generated,
                    loop |-> FALSE]
              ELSE ProcessGenerationRequest(m, f) IN
     /\ generated' = o.store
     /\ qGenDone' = qGenDone \cup Range(o.run.published)
     /\ qGen' = Settle(qGen, m, o.run.raised)
     /\ lastRun' = RunRecord("generate", m, o.run, o.loop, DOMAIN generated)
  /\ UNCHANGED <<dbVars, uploads, parsed, qParse, qParseDone, injected, manual, libVars>>

\* ------------------------------------------- API: completion message handlers
\* handle_parse_complete under MessageQueue.consume.  The handler catches every
\* exception of its body, so only the decoding can raise.
HandleParseComplete(m, fails) ==
  /\ m \in qParseDone
  /\ qParseDone' = Settle(qParseDone, m, DecodeRaises(m))
  /\ LET document_id == Get(m, "document_id")
         known == ~DecodeRaises(m) /\ document_id \in Docs
                  /\ status[document_id] # ABSENT
         request == GenerateRequest(document_id, Get(m, "parsed_data_path"),
                                    DefaultFormats, ProjectOf(document_id))
         sent == known /\ Get(m, "status") = "completed"
     IN /\ IF ~known
           THEN UNCHANGED <<status, parsed_data_path, qGen>>
           ELSE IF Get(m, "status") = "completed"
           THEN /\ status' = [status EXCEPT ![document_id] = PARSED]
                /\ parsed_data_path' = [parsed_data_path EXCEPT
                                          ![document_id] = Get(m, "parsed_data_path")]
                /\ qGen' = IF fails THEN qGen ELSE Publish(qGen, request)
           ELSE /\ status' = [status EXCEPT ![document_id] = FAILED]
                /\ UNCHANGED <<parsed_data_path, qGen>>
        /\ lastRun' = RunRecord("parse_complete", m,
             Out(<<>>, IF sent THEN <<request>> ELSE <<>>,
                 IF sent /\ ~fails THEN <<request>> ELSE <<>>, DecodeRaises(m)),
             FALSE, {})
  /\ UNCHANGED <<generated_files, upload_pc, storeVars, qParse, qGenDone,
                 injected, manual, libVars>>

\* handle_generate_complete under MessageQueue.consume
HandleGenerateComplete(m) ==
  /\ m \in qGenDone
  /\ qGenDone' = Settle(qGenDone, m, DecodeRaises(m))
  /\ LET document_id == Get(m, "document_id")
         known == ~DecodeRaises(m) /\ document_id \in Docs
                  /\ status[document_id] # ABSENT
     IN IF ~known
        THEN UNCHANGED <<status, generated_files>>
        ELSE IF Get(m, "status") = "completed"
        THEN /\ status' = [status EXCEPT ![document_id] = COMPLETED]
             /\ generated_files' = [generated_files EXCEPT ![document_id] =
                  IF "generated_files" \in DOMAIN m THEN m.generated_files ELSE {}]
        ELSE /\ status' = [status EXCEPT ![document_id] = FAILED]
             /\ UNCHANGED generated_files
  /\ lastRun' = RunRecord("generate_complete", m,
                          Out(<<>>, <<>>, <<>>, DecodeRaises(m)), FALSE, {})
  /\ UNCHANGED <<parsed_data_path, upload_pc, storeVars, qParse,
                 qParseDone, qGen, injected, manual, libVars>>

\* ---------------------------------------------------------------- environment
Garbage == [garbage |-> "{"]
GoodFilePath == StoragePath("uploads", UploadObjectName("d1"))

\* parse requests of other producers: redelivered, malformed or incomplete
InjectedParseRequests ==
  { Garbage,
    ParseRequest("d1", GoodFilePath, "p1"),
    ParseRequest("d1", StoragePath("uploads", "missing.vsdx"), "p1"),
    ParseRequest("d1", NUM, "p1"),
    [file_path |-> GoodFilePath, project_id |-> "p1"],
    [document_id |-> "d1", project_id |-> "p1"],
    [document_id |-> "d1", file_path |-> GoodFilePath],
    [project_id |-> "p1"] }

InjectedGenerateRequests ==
  { Garbage,
    GenerateRequest("d1", ParsedPath("d1"), <<"html", "pdf", "bogus">>, "p1"),
    GenerateRequest("d1", ParsedPath("d1"), <<"bogus">>, "p1"),
    GenerateRequest("d1", NULL, <<"html">>, "p1"),
    [document_id |-> "d1", parsed_data_path |-> ParsedPath("d1"), project_id |-> "p1"],
    [document_id |-> "d1", parsed_data_path |-> ParsedPath("d1"),
     formats |-> FormatsNull, project_id |-> "p1"],
    [parsed_data_path |-> ParsedPath("d1"), formats |-> FormatsList(<<"html">>)] }

\* a request of another producer arrives once the earlier ones are settled
Quiet == qParse = {} /\ qParseDone = {} /\ qGen = {} /\ qGenDone = {}

InjectParse(m) ==
  /\ injected < MaxInjected
  /\ Quiet
  /\ injected' = injected + 1
  /\ UNCHANGED manual
  /\ qParse' = Publish(qParse, m)
  /\ UNCHANGED <<dbVars, storeVars, qParseDone, qGen, qGenDone, lastRun,
                 libVars>>

InjectGenerate(m) ==
  /\ injected < MaxInjected
  /\ Quiet
  /\ injected' = injected + 1
  /\ UNCHANGED manual
  /\ qGen' = Publish(qGen, m)
  /\ UNCHANGED <<dbVars, storeVars, qParse, qParseDone, qGenDone, lastRun,
                 libVars>>

\* ------------------------------------------------- the pipeline: API + workers
Next ==
  \/ \E d \in Docs : UploadCreate(d)
  \/ \E d \in Docs, c \in FileContents, x \in BOOLEAN : UploadStore(d, c, x)
  \/ \E d \in Docs, x \in BOOLEAN : UploadPublish(d, x)
  \/ \E d \in Docs, fs \in RequestableFormats, x \in BOOLEAN :
       GenerateDocumentation(d, fs, x)
  \/ \E d \in Docs, x \in BOOLEAN : RefreshDocumentStatus(d, x)
  \/ \E m \in qParse, f \in Faults, t \in TempNames : ParserConsume(m, f, t)
  \/ \E m \in qGen, f \in GenFaults : GeneratorConsume(m, f)
  \/ \E m \in qParseDone, x \in BOOLEAN : HandleParseComplete(m, x)
  \/ \E m \in qGenDone : HandleGenerateComplete(m)

Spec == Init /\ [][Next]_vars

\* the same pipeline with a reliable broker and object store
ReliableNext ==
  \/ \E d \in Docs : UploadCreate(d)
  \/ \E d \in Docs, c \in FileContents : UploadStore(d, c, FALSE)
  \/ \E d \in Docs : UploadPublish(d, FALSE)
  \/ \E d \in Docs, fs \in RequestableFormats : GenerateDocumentation(d, fs, FALSE)
  \/ \E d \in Docs : RefreshDocumentStatus(d, FALSE)
  \/ \E m \in qParse, t \in TempNames : ParserConsume(m, NoFaults, t)
  \/ \E m \in qGen : GeneratorConsume(m, NoGenFaults)
  \/ \E m \in qParseDone : HandleParseComplete(m, FALSE)
  \/ \E m \in qGenDone : HandleGenerateComplete(m)

ReliableSpec == Init /\ [][ReliableNext]_vars

\* ------------------------- the workers under requests of arbitrary producers
\* d1 has been uploaded and is waiting to be parsed
WorkerInit ==
  /\ \E c \in FileContents : uploads = Put(EmptyStore, UploadObjectName("d1"), c)
  /\ status = [d \in Docs |-> PARSING]
  /\ upload_pc = [d \in Docs |-> "done"]
  /\ parsed_data_path = [d \in Docs |-> NULL]
  /\ generated_files = [d \in Docs |-> {}]
  /\ parsed = EmptyStore
  /\ generated = EmptyStore
  /\ qParse = {}
  /\ qParseDone = {}
  /\ qGen = {}
  /\ qGenDone = {}
  /\ injected = 0
  /\ manual = 0
  /\ lastRun = NoRun
  /\ LibIdle

WorkerNext ==
  \/ \E m \in InjectedParseRequests : InjectParse(m)
  \/ \E m \in InjectedGenerateRequests : InjectGenerate(m)
  \/ \E m \in qParse, f \in Faults, t \in TempNames : ParserConsume(m, f, t)
  \/ \E m \in qGen, f \in GenFaults : GeneratorConsume(m, f)
  \/ \E m \in qParseDone, x \in BOOLEAN : HandleParseComplete(m, x)
  \/ \E m \in qGenDone : HandleGenerateComplete(m)

WorkerSpec == WorkerInit /\ [][WorkerNext]_vars

\* ------------------------------------------------------------ diagram parser
\* A child shape carries its ID, its text, the text of its x cell and its
\* connects; a connect carries the ID of the shape at each end (NULL when
\* from_rel / to_rel, its shape or the shape's ID is missing).
NodeShape(id, text, x) == [ID |-> id, text |-> text, x |-> x, connects |-> <<>>]
\* reading "part" of a connect whose relation is damaged raises
Connect(from, to, part) == [from_rel |-> from, to_rel |-> to, part |-> part]
PartRaises(connect) == connect.part = "raises"
ConnectorShape(id, text, from, to) ==
  [ID |-> id, text |-> text, x |-> "0.0",
   connects |-> << Connect(from, to, "BeginX") >>]

\* detect_shape_type on the texts used here (no shape has a master):
\* "rt-01" matches \brt\b, "fw-01" matches \bfw\b, the connector labels
\* match no pattern
DetectShapeType(master_name, text) ==
  LET combined == Lower((IF Falsy(master_name) THEN "" ELSE master_name)
                        \o " " \o (IF Falsy(text) THEN "" ELSE text))
  IN CASE combined = " rt-01" -> "router"
       [] combined = " fw-01" -> "firewall"
       [] OTHER -> "unknown"

\* "term in text_lower" on the connector labels used here
HasTerm(text_lower, term) ==
  \/ text_lower = "1gbps ethernet" /\ term \in {"ethernet", "eth"}
  \/ text_lower = "ipsec vpn" /\ term \in {"vpn", "ipsec"}
HasAnyTerm(text_lower, terms) == \E term \in terms : HasTerm(text_lower, term)

\* normalize_connection_type
NormalizeConnectionType(connector_text, source_type, target_type) ==
  LET text_lower == Lower(IF Falsy(connector_text) THEN "" ELSE connector_text) IN
  IF HasAnyTerm(text_lower, {"ethernet", "eth", "gig", "fast"}) THEN "ethernet"
  ELSE IF HasAnyTerm(text_lower, {"fiber", "optical", "sfp"}) THEN "fiber"
  ELSE IF HasAnyTerm(text_lower, {"serial", "rs232", "console"}) THEN "serial"
  ELSE IF HasAnyTerm(text_lower, {"wireless", "wifi", "wi-fi", "802.11"})
  THEN "wireless"
  ELSE IF HasAnyTerm(text_lower, {"vpn", "tunnel", "ipsec"}) THEN "vpn"
  ELSE IF HasAnyTerm(text_lower, {"wan", "mpls", "leased"}) THEN "wan"
  ELSE IF source_type = "cloud" \/ target_type = "cloud" THEN "internet"
  ELSE IF source_type = "firewall" \/ target_type = "firewall"
  THEN "security_link"
  ELSE "network_link"

\* float(shape.x)
FloatRaises(x) == x \notin {"0.0", "10.0"}

\* an extraction loop that stops at the first shape that raises
OnShapeErrorBreak(rest) == <<>>

\* "except Exception: ... continue" of _extract_shapes_vsdx
OnShapeError(rest) == rest

RECURSIVE ExtractShapesVsdx(_)
\* _extract_shapes_vsdx: a shape whose extraction raises is skipped
ExtractShapesVsdx(child_shapes) ==
  IF child_shapes = <<>> THEN <<>>
  ELSE LET shape == Head(child_shapes)
           rest == ExtractShapesVsdx(Tail(child_shapes)) IN
       IF FloatRaises(shape.x) THEN OnShapeError(rest)
       ELSE << [id |-> shape.ID,
                 name |-> IF Falsy(shape.text) THEN "Shape_" \o shape.ID
                          ELSE shape.text,
                 shape_type |-> DetectShapeType(NULL, shape.text),
                 x |-> shape.x,
                 properties |-> <<>>] >> \o rest

RECURSIVE ConnectionsOfShape(_, _)
\* the "for connect in connects_list" loop of _extract_connections_vsdx
ConnectionsOfShape(shape, connects_list) ==
  IF connects_list = <<>> THEN <<>>
  ELSE LET connect == Head(connects_list)
           connection == [id |-> shape.ID,
                          source_id |-> connect.from_rel,
                          target_id |-> connect.to_rel,
                          connection_type |-> "network_link",
                          properties |->
                            [label |-> IF Falsy(shape.text) THEN "" ELSE shape.text,
                             from_part |-> connect.part,
                             to_part |-> connect.part]]
           rest == ConnectionsOfShape(shape, Tail(connects_list)) IN
       IF PartRaises(connect) THEN rest
       ELSE IF ~Falsy(connection.source_id) /\ ~Falsy(connection.target_id)
       THEN <<connection>> \o rest
       ELSE rest

RECURSIVE ExtractConnectionsVsdx(_)
\* _extract_connections_vsdx
ExtractConnectionsVsdx(child_shapes) ==
  IF child_shapes = <<>> THEN <<>>
  ELSE ConnectionsOfShape(Head(child_shapes), Head(child_shapes).connects)
         \o ExtractConnectionsVsdx(Tail(child_shapes))

RECURSIVE AllShapes(_)
AllShapes(pages) ==
  IF pages = <<>> THEN <<>>
  ELSE ExtractShapesVsdx(Head(pages)) \o AllShapes(Tail(pages))

RECURSIVE AllConnections(_)
AllConnections(pages) ==
  IF pages = <<>> THEN <<>>
  ELSE ExtractConnectionsVsdx(Head(pages)) \o AllConnections(Tail(pages))

\* _parse_vsdx
ParseVsdx(file_name, pages) ==
  [filename |-> file_name,
   shapes |-> AllShapes(pages),
   connections |-> AllConnections(pages),
   page_count |-> Len(pages)]

\* The pages a diagram may hold: up to two device shapes and one connector,
\* with distinct IDs.  Shape "7" is nested in a group, so it is the end of a
\* connect without being a child shape of the page; x "abc" is a cell that
\* float() rejects.
Device1 ==
  {<<>>, <<NodeShape("1", "RT-01", "10.0")>>, <<NodeShape("1", "RT-01", "abc")>>}
Device2 == {<<>>, <<NodeShape("2", "FW-01", "0.0")>>}
Connectors ==
  {<<>>} \cup { <<ConnectorShape("3", "", from, to)>> :
                  from \in {"1", NULL}, to \in {"2", "7", NULL} }
          \cup { <<ConnectorShape("3", text, "1", "2")>> :
                   text \in {"1Gbps Ethernet", "IPSec VPN"} }
          \cup { << [ID |-> "3", text |-> "", x |-> "0.0",
                     connects |-> << Connect("1", "2", "raises"),
                                     Connect("2", "1", "BeginX") >>] >> }
Pages == { a \o b \o c : a \in Device1, b \in Device2, c \in Connectors }

\* VisioFile(...).pages gains a page (the diagram is being read)
OpenPage(p) ==
  /\ parse_call = NoCall
  /\ Len(vis) < MaxPages
  /\ vis' = Append(vis, p)
  /\ UNCHANGED <<result, parse_call, otherThanParse>>

\* is_visio_file
IsVisioFile(suffix) ==
  Lower(suffix) \in {".vsd", ".vsdx", ".vsdm", ".vss", ".vssx", ".vssm"}

\* checks that look at the extension before they look for the file
ParseFileErrorSuffixFirst(exists, suffix, vsdx_available) ==
  IF ~IsVisioFile(suffix) THEN "ValueError"
  ELSE IF ~exists THEN "FileNotFoundError"
  ELSE IF Lower(suffix) = ".vsdx" /\ vsdx_available THEN "none"
  ELSE "NotImplementedError"

\* the checks of parse_file, in their order; "none" when _parse_vsdx is called
ParseFileError(exists, suffix, vsdx_available) ==
  IF ~exists THEN "FileNotFoundError"
  ELSE IF ~IsVisioFile(suffix) THEN "ValueError"
  ELSE IF Lower(suffix) = ".vsdx" /\ vsdx_available THEN "none"
  ELSE "NotImplementedError"

\* the paths parse_file may be given
Suffixes == {".vsdx", ".VSDX", ".vsd", ".vssx", ".txt", ""}

\* parse_file; only an existing .vsdx file holds pages
ParseFile(exists, suffix, vsdx_available) ==
  LET error == ParseFileError(exists, suffix, vsdx_available) IN
  /\ parse_call = NoCall
  /\ vis # <<>> => exists /\ Lower(suffix) = ".vsdx"
  /\ parse_call' = [exists |-> exists, suffix |-> suffix,
                    vsdx_available |-> vsdx_available, error |-> error]
  /\ result' = IF error = "none" THEN ParseVsdx("tmp" \o suffix, vis) ELSE result
  /\ UNCHANGED <<vis, otherThanParse>>

ParseNext ==
  \/ \E p \in Pages : OpenPage(p)
  \/ \E exists \in BOOLEAN, suffix \in Suffixes, vsdx_available \in BOOLEAN :
       ParseFile(exists, suffix, vsdx_available)
ParseSpec == Init /\ [][ParseNext]_vars

\* ---------------------------------------------------------------- enrichment
\* DEFAULT_NETWORK_CONFIG["device_defaults"]
DeviceDefaults ==
  [router |-> [vendor |-> "Generic", model |-> "Router",
               os_version |-> "Latest", management_ip |-> "10.0.0.X"],
   switch |-> [vendor |-> "Generic", model |-> "Switch",
               os_version |-> "Latest", management_ip |-> "10.0.0.X",
               port_count |-> 24],
   firewall |-> [vendor |-> "Generic", model |-> "Firewall",
                 os_version |-> "Latest", management_ip |-> "10.0.0.X",
                 policy_count |-> 0],
   server |-> [vendor |-> "Generic", model |-> "Server",
               os |-> "Linux/Windows", ip_address |-> "10.0.0.X",
               services |-> <<>>]]

\* DEFAULT_NETWORK_CONFIG["connection_defaults"]
ConnectionDefaults ==
  [bandwidth |-> "1 Gbps", media_type |-> "Ethernet", protocol |-> "TCP/IP"]

\* dict union in which the keys of b win
Update(a, b) ==
  [k \in DOMAIN a \cup DOMAIN b |-> IF k \in DOMAIN b THEN b[k] ELSE a[k]]

\* get_default_device_properties
GetDefaultDeviceProperties(device_type_arg, device_name) ==
  LET device_type == IF Falsy(device_type_arg) THEN "unknown" ELSE device_type_arg
      device_type_lower == Lower(device_type)
  IN IF device_type_lower \in DOMAIN DeviceDefaults
     THEN Update(DeviceDefaults[device_type_lower],
                 IF ~Falsy(device_name)
                 THEN [hostname |-> device_name,
                       description |-> device_type \o " - " \o device_name]
                 ELSE [hostname |-> device_type \o "_HOSTNAME",
                       description |-> device_type \o " Device"])
     ELSE [vendor |-> "Unknown", model |-> "Unknown",
           hostname |-> IF ~Falsy(device_name) THEN device_name
                        ELSE device_type \o "_HOSTNAME",
           description |-> device_type \o " Device"]

\* "fiber" in connection_type.lower(), and so on, on the types used here
ContainsWord(connection_type, word) ==
  \/ word = "fiber" /\ connection_type \in {"fiber", "Fiber Link"}
  \/ word = "wireless" /\ connection_type \in {"wireless"}
  \/ word = "serial" /\ connection_type \in {"serial"}

\* get_default_connection_properties
GetDefaultConnectionProperties(connection_type) ==
  IF Falsy(connection_type) THEN ConnectionDefaults
  ELSE IF ContainsWord(connection_type, "fiber")
  THEN Update(ConnectionDefaults,
              [bandwidth |-> "10 Gbps", media_type |-> "Fiber Optic"])
  ELSE IF ContainsWord(connection_type, "wireless")
  THEN [bandwidth |-> "300 Mbps", media_type |-> "Wireless",
        protocol |-> "802.11ac"]
  ELSE IF ContainsWord(connection_type, "serial")
  THEN [bandwidth |-> "115200 bps", media_type |-> "Serial",
        protocol |-> "RS-232"]
  ELSE ConnectionDefaults

\* the properties of an element: {} when the key is missing or its value
\* is falsy ("if not shape.get('properties')")
PropertiesOf(element) ==
  IF "properties" \in DOMAIN element THEN element.properties ELSE <<>>

\* a merge in which the defaults replace what is present
MergeDefaultsOverwriting(properties, defaults) == Update(properties, defaults)

\* "for key, value in defaults.items(): if key not in properties: ..."
MergeDefaults(properties, defaults) == Update(defaults, properties)

\* the defaults enrich_parsed_data looks up for a shape / a connection
ShapeDefaults(shape) ==
  GetDefaultDeviceProperties(IF "type" \in DOMAIN shape THEN shape.type
                             ELSE "unknown", Get(shape, "name"))
ConnDefaults(connection) ==
  GetDefaultConnectionProperties(Get(connection, "type"))

\* a flag that is set by the first enrichment and cleared by the next
EnrichMetadataToggling(metadata) ==
  Update(metadata, [defaults_applied |-> "defaults_applied" \notin DOMAIN metadata,
                    notice |-> "defaults"])

\* metadata["defaults_applied"] = True; metadata["notice"] = ...
EnrichMetadata(metadata) ==
  Update(metadata, [defaults_applied |-> TRUE, notice |-> "defaults"])

\* enrich_parsed_data
EnrichParsedData(data) ==
  LET shapes == [i \in DOMAIN data.shapes |->
                   Update(data.shapes[i],
                          [properties |-> MergeDefaults(PropertiesOf(data.shapes[i]),
                                                        ShapeDefaults(data.shapes[i]))])]
      connections == [i \in DOMAIN data.connections |->
                   Update(data.connections[i],
                          [properties |-> MergeDefaults(PropertiesOf(data.connections[i]),
                                                        ConnDefaults(data.connections[i]))])]
      metadata == IF "metadata" \in DOMAIN data THEN data.metadata ELSE <<>>
      with_info == IF "network_info" \in DOMAIN data THEN data
                   ELSE Update(data, [network_info |-> "DEFAULT_NETWORK_CONFIG"])
  IN Update(with_info, [shapes |-> shapes, connections |-> connections,
                        metadata |-> EnrichMetadata(metadata)])

\* The dictionaries handed to enrich_parsed_data: shapes with and without a
\* name, a type and properties (none, empty, partial, complete) and
\* connections likewise.
ShapeNames == {"RT-01", NULL}
ShapeProperties ==
  { <<>>, [vendor |-> "Cisco"],
    [vendor |-> "Cisco", model |-> "ISR", hostname |-> "rt01",
     description |-> "edge router"] }
EnrichShapes ==
  { [id |-> "1", name |-> n] : n \in ShapeNames }
  \cup { [id |-> "1", name |-> n, properties |-> p] :
           n \in ShapeNames, p \in ShapeProperties }
  \cup { [id |-> "1", name |-> n, type |-> "Switch", properties |-> p] :
           n \in ShapeNames, p \in ShapeProperties }
ConnProperties ==
  { <<>>, [bandwidth |-> "40 Gbps"],
    [bandwidth |-> "40 Gbps", media_type |-> "DAC", protocol |-> "FCoE"] }
EnrichConnections ==
  { [id |-> "3", source_id |-> "1", target_id |-> "2", type |-> t,
     properties |-> p] : t \in {"fiber", "network_link"}, p \in ConnProperties }
  \cup { [id |-> "3", source_id |-> "1", target_id |-> "2",
          connection_type |-> "network_link", properties |-> p] :
           p \in ConnProperties }
SeqsUpTo(S, n) == UNION { [1..k -> S] : k \in 0..n }
EnrichInputs ==
  { [shapes |-> ss, connections |-> cs, metadata |-> [title |-> "t"]] :
      ss \in SeqsUpTo(EnrichShapes, MaxShapes), cs \in SeqsUpTo(EnrichConnections, 1) }

\* the parse worker hands a parsed dictionary to enrich_parsed_data
GiveParsedData(data) ==
  /\ enriched = <<>>
  /\ parsed_data = [shapes |-> <<>>, connections |-> <<>>]
  /\ parsed_data' = data
  /\ UNCHANGED <<enriched, otherThanEnrich>>

\* parsed_data = enrich_parsed_data(parsed_data)
Enrich ==
  /\ enriched = <<>>
  /\ enriched' = <<EnrichParsedData(parsed_data)>>
  /\ UNCHANGED <<parsed_data, otherThanEnrich>>

\* enrich_parsed_data applied to the dictionary it returned
EnrichAgain ==
  /\ Len(enriched) = 1
  /\ enriched' = Append(enriched, EnrichParsedData(enriched[1]))
  /\ UNCHANGED <<parsed_data, otherThanEnrich>>

EnrichNext ==
  \/ /\ EnrichIdle
     /\ \E data \in EnrichInputs : GiveParsedData(data)
  \/ Enrich
  \/ EnrichAgain
EnrichSpec == Init /\ [][EnrichNext]_vars

\* process_parse_request: parsed_data = self.parser.parse_file(temp_path);
\* parsed_data = enrich_parsed_data(parsed_data)
EnrichParsed ==
  /\ parse_call.error = "none"
  /\ EnrichIdle
  /\ parsed_data' = result
  /\ enriched' = <<EnrichParsedData(result)>>
  /\ UNCHANGED otherThanEnrich

ParseEnrichNext == ParseNext \/ EnrichParsed
ParseEnrichSpec == Init /\ [][ParseEnrichNext]_vars

\* ------------------------------------------------------------ device resolver
\* parser/src/device_resolver.py; a shape is a dictionary with the keys id, name,
\* text, master_name and properties, properties a dictionary kept in insertion
\* order as a sequence of <<key, value>>
DeviceTypes ==
  {"router", "switch", "firewall", "load_balancer", "server", "wireless_ap",
   "wireless_controller", "storage", "workstation", "cloud", "internet", "unknown"}
DeviceRoles ==
  {"core", "distribution", "access", "edge", "border", "spine", "leaf",
   "aggregation", "compute", "storage", "management", "unknown"}

DEVICE_PATTERNS ==
  << <<"(rtr|router|rt)[-_]?(\\w+)?", "router">>,
     <<"(gw|gateway)[-_]?(\\w+)?", "router">>,
     <<"(bgp|mpls|wan)[-_]?(\\w+)?", "router">>,
     <<"(sw|switch)[-_]?(\\w+)?", "switch">>,
     <<"(core)[-_]?(sw|switch)?[-_]?(\\w+)?", "switch">>,
     <<"(dist|distribution)[-_]?(sw|switch)?[-_]?(\\w+)?", "switch">>,
     <<"(access)[-_]?(sw|switch)?[-_]?(\\w+)?", "switch">>,
     <<"(tor|top[-_]?of[-_]?rack)[-_]?(\\w+)?", "switch">>,
     <<"(fw|firewall|asa|palo|fortinet|checkpoint)[-_]?(\\w+)?", "firewall">>,
     <<"(dmz|security)[-_]?(\\w+)?", "firewall">>,
     <<"(lb|loadbalancer|f5|netscaler|haproxy)[-_]?(\\w+)?", "load_balancer">>,
     <<"(vip|virtual[-_]?ip)[-_]?(\\w+)?", "load_balancer">>,
     <<"(srv|server|host)[-_]?(\\w+)?", "server">>,
     <<"(web|app|db|database|sql)[-_]?(srv|server)?[-_]?(\\w+)?", "server">>,
     <<"(vm|virtual[-_]?machine)[-_]?(\\w+)?", "server">>,
     <<"(ap|access[-_]?point|wap)[-_]?(\\w+)?", "wireless_ap">>,
     <<"(wlc|wireless[-_]?controller)[-_]?(\\w+)?", "wireless_controller">>,
     <<"(storage|san|nas|filer)[-_]?(\\w+)?", "storage">> >>
ROLE_PATTERNS ==
  << <<"core", "core">>,
     <<"dist|distribution", "distribution">>,
     <<"access", "access">>,
     <<"edge|border", "edge">>,
     <<"spine", "spine">>,
     <<"leaf", "leaf">>,
     <<"mgmt|management", "management">> >>
VENDOR_PATTERNS ==
  << <<"cisco|catalyst|nexus|asr|isr", "Cisco">>,
     <<"juniper|junos|srx|ex\\d+", "Juniper">>,
     <<"arista|eos", "Arista">>,
     <<"fortinet|fortigate", "Fortinet">>,
     <<"palo[-_]?alto|pan", "Palo Alto">>,
     <<"f5|bigip", "F5">>,
     <<"dell|force10", "Dell">>,
     <<"hp|hpe|aruba|procurve", "HPE">>,
     <<"huawei", "Huawei">>,
     <<"vmware|nsx", "VMware">> >>

\* re.search(pattern, combined_text, re.IGNORECASE) on the texts of ShapeContents:
\* the pairs that match
Matches ==
  { <<"(sw|switch)[-_]?(\\w+)?", "core-sw-01   ">>,
    <<"(core)[-_]?(sw|switch)?[-_]?(\\w+)?", "core-sw-01   ">>,
    <<"core", "core-sw-01  ">>,
    <<"(sw|switch)[-_]?(\\w+)?", "dist-sw-01   ">>,
    <<"(dist|distribution)[-_]?(sw|switch)?[-_]?(\\w+)?", "dist-sw-01   ">>,
    <<"dist|distribution", "dist-sw-01  ">>,
    <<"(sw|switch)[-_]?(\\w+)?", "access-sw-02   ">>,
    <<"(access)[-_]?(sw|switch)?[-_]?(\\w+)?", "access-sw-02   ">>,
    <<"access", "access-sw-02  ">>,
    <<"(rtr|router|rt)[-_]?(\\w+)?", "shape_5  router ">>,
    <<"(ap|access[-_]?point|wap)[-_]?(\\w+)?", "shape_5  router ">>,
    <<"(gw|gateway)[-_]?(\\w+)?", "isr4321-gw   cisco">>,
    <<"cisco|catalyst|nexus|asr|isr", "isr4321-gw  cisco">> }
Search(pattern, text) == <<pattern, text>> \in Matches

\* for pattern, value in PATTERNS.items(): if re.search(...): return value
FirstMatch(patterns, text, default) ==
  IF \E i \in DOMAIN patterns : Search(patterns[i][1], text)
  THEN LET i == CHOOSE k \in DOMAIN patterns :
                  /\ Search(patterns[k][1], text)
                  /\ \A j \in 1..(k - 1) : ~Search(patterns[j][1], text)
       IN patterns[i][2]
  ELSE default

\* " ".join(...)
RECURSIVE Join(_)
Join(parts) ==
  IF parts = <<>> THEN ""
  ELSE IF Len(parts) = 1 THEN parts[1]
  ELSE parts[1] \o " " \o Join(Tail(parts))

\* properties.values(), each through str(v).lower()
LowerValues(properties) == [i \in DOMAIN properties |-> Lower(properties[i][2])]
LowerOrEmpty(s) == IF Falsy(s) THEN "" ELSE Lower(s)

\* keyword in master_lower, for the master names of ShapeContents
KeywordIn(keyword, master_lower) == keyword = "router" /\ master_lower = "router"

DetectDeviceType(name, text, master_name, properties) ==
  LET text_sources == <<LowerOrEmpty(name), LowerOrEmpty(text),
                        LowerOrEmpty(master_name), Join(LowerValues(properties))>>
      combined_text == Join(text_sources)
      by_pattern == FirstMatch(DEVICE_PATTERNS, combined_text, NULL)
      master_lower == Lower(master_name)
      any(keywords) == \E keyword \in keywords : KeywordIn(keyword, master_lower)
  IN IF by_pattern # NULL THEN by_pattern
     ELSE IF Falsy(master_name) THEN "unknown"
     ELSE IF any({"router", "rtr"}) THEN "router"
     ELSE IF any({"switch", "sw"}) THEN "switch"
     ELSE IF any({"firewall", "fw"}) THEN "firewall"
     ELSE IF any({"server", "srv"}) THEN "server"
     ELSE "unknown"

DetectDeviceRole(name, text, properties) ==
  LET text_sources == <<LowerOrEmpty(name), LowerOrEmpty(text),
                        Join(LowerValues(properties))>>
  IN FirstMatch(ROLE_PATTERNS, Join(text_sources), "unknown")

DetectVendor(name, text, properties) ==
  LET text_sources == <<LowerOrEmpty(name), LowerOrEmpty(text),
                        Join(LowerValues(properties))>>
  IN FirstMatch(VENDOR_PATTERNS, Join(text_sources), NULL)

\* the first of model_patterns that matches the source: match.group(0).strip()
ModelMatch(source) == IF source = "isr4321-gw" THEN "isr4321" ELSE NULL

ExtractModel(name, text, properties) ==
  LET text_sources == <<name, text>> \o [i \in DOMAIN properties |-> properties[i][2]]
      hits == {i \in DOMAIN text_sources :
                 ~Falsy(text_sources[i]) /\ ModelMatch(text_sources[i]) # NULL}
  IN IF hits = {} THEN NULL
     ELSE ModelMatch(text_sources[CHOOSE i \in hits : \A j \in hits : i <= j])

\* properties[key] of a dictionary kept as a sequence of pairs
DictHas(d, k) == \E i \in DOMAIN d : d[i][1] = k
DictGet(d, k) == d[CHOOSE i \in DOMAIN d : d[i][1] = k][2]

\* re.search(ip_pattern, s): no text of ShapeContents holds a dotted quad
IpMatch(s) == NULL

ExtractIp(text, properties) ==
  LET ip_keys == <<"ip", "ip_address", "management_ip", "mgmt_ip", "address">>
      hits == {i \in DOMAIN ip_keys :
                 /\ DictHas(properties, ip_keys[i])
                 /\ ~Falsy(DictGet(properties, ip_keys[i]))
                 /\ IpMatch(DictGet(properties, ip_keys[i])) # NULL}
  IN IF hits # {}
     THEN IpMatch(DictGet(properties, ip_keys[CHOOSE i \in hits : \A j \in hits : i <= j]))
     ELSE IF ~Falsy(text) THEN IpMatch(text)
     ELSE NULL

ExtractLocation(properties) ==
  LET location_keys == <<"location", "site", "building", "floor", "rack",
                         "datacenter", "dc">>
      hits == {i \in DOMAIN location_keys :
                 /\ DictHas(properties, location_keys[i])
                 /\ ~Falsy(DictGet(properties, location_keys[i]))}
  IN IF hits # {}
     THEN DictGet(properties, location_keys[CHOOSE i \in hits : \A j \in hits : i <= j])
     ELSE NULL

\* str.title() of the enum values
Title(s) ==
  CASE s = "router" -> "Router" [] s = "switch" -> "Switch"
    [] s = "wireless_ap" -> "Wireless_Ap"
    [] s = "core" -> "Core" [] s = "distribution" -> "Distribution"
    [] s = "access" -> "Access"
    [] OTHER -> s
\* name.startswith("Shape_") or name.startswith("shape_")
StartsWithShape(name) == name = "Shape_5"
\* re.findall(r'\d+', f"{name} {text}"), the first number found
FirstNumber(s) == IF s = "Shape_5 " THEN "5" ELSE NULL

\* the addresses id(name) may return
Addresses == {"139872", "140213"}

GenerateDisplayName(name, text, device_type, device_role, addr) ==
  IF ~Falsy(name) /\ ~StartsWithShape(name) THEN name
  ELSE LET role_part == IF device_role # "unknown" THEN <<Title(device_role)>> ELSE <<>>
           type_part == IF device_type # "unknown" THEN <<Title(device_type)>> ELSE <<>>
           number == FirstNumber(name \o " " \o text)
           number_part == IF number # NULL THEN <<number>> ELSE <<>>
           parts == role_part \o type_part \o number_part
       IN IF parts # <<>> THEN Join(parts)
          ELSE IF ~Falsy(name) THEN name
          ELSE "Device_" \o addr

\* what resolve_device computes for a shape that is not in the cache
DetectDevice(shape, addr) ==
  LET name == shape.name
      text == shape.text
      properties == shape.properties
      device_type == DetectDeviceType(name, text, shape.master_name, properties)
      device_role == DetectDeviceRole(name, text, properties)
  IN [id |-> shape.id,
      name |-> IF ~Falsy(name) THEN name ELSE "Device_" \o shape.id,
      display_name |-> GenerateDisplayName(name, text, device_type, device_role, addr),
      device_type |-> device_type,
      device_role |-> device_role,
      vendor |-> DetectVendor(name, text, properties),
      model |-> ExtractModel(name, text, properties),
      management_ip |-> ExtractIp(text, properties),
      location |-> ExtractLocation(properties),
      description |-> IF ~Falsy(text) /\ text # name THEN text ELSE NULL,
      properties |-> properties]

\* resolve_device: a shape whose id is in the cache gets the cached device
ResolveDevice(shape, cache, addr) ==
  IF DictHas(cache, shape.id) THEN DictGet(cache, shape.id)
  ELSE DetectDevice(shape, addr)

\* self.device_cache[shape_id] = device_info, reached when the id was not cached
CacheAfter(shape, cache, addr) ==
  IF DictHas(cache, shape.id) THEN cache
  ELSE DictSet(cache, shape.id, DetectDevice(shape, addr))

\* resolve_devices: the loop over the shapes; the devices and the cache after it
RECURSIVE ResolveLoop(_, _, _, _)
ResolveLoop(shapes, cache, devices, addr) ==
  IF shapes = <<>> THEN [devices |-> devices, device_cache |-> cache]
  ELSE LET device_info == ResolveDevice(Head(shapes), cache, addr)
       IN ResolveLoop(Tail(shapes),
                      CacheAfter(Head(shapes), cache, addr),
                      DictSet(devices, device_info.id, device_info),
                      addr)
ResolveDevicesOn(shapes, cache, addr) == ResolveLoop(shapes, cache, <<>>, addr)

\* value or default, for the optional fields of an inventory entry
OrElse(v, default) == IF Falsy(v) THEN default ELSE v

InventoryEntry(device_id, device) ==
  [id |-> device_id,
   name |-> device.display_name,
   type |-> device.device_type,
   role |-> device.device_role,
   vendor |-> OrElse(device.vendor, "Unknown"),
   model |-> OrElse(device.model, "Unknown"),
   management_ip |-> OrElse(device.management_ip, "N/A"),
   location |-> OrElse(device.location, "N/A"),
   description |-> OrElse(device.description, "")]

\* a priority that orders the roles by their names
RolePriorityByName(role) ==
  CASE role = "access" -> 1 [] role = "core" -> 2 [] role = "distribution" -> 3
    [] role = "edge" -> 4 [] role = "leaf" -> 5 [] role = "management" -> 6
    [] role = "spine" -> 7 [] role = "unknown" -> 8
    [] OTHER -> 50

\* _role_priority: priorities.get(role, 50)
RolePriority(role) ==
  CASE role = "core" -> 1 [] role = "spine" -> 2 [] role = "distribution" -> 3
    [] role = "leaf" -> 4 [] role = "access" -> 5 [] role = "edge" -> 6
    [] role = "management" -> 7 [] role = "unknown" -> 99
    [] OTHER -> 50

\* Python's order of str on the type values and the display names that occur
StringOrder ==
  <<"Device_139872", "Device_140213", "Router 5", "access-sw-02", "cloud",
    "core-sw-01", "dist-sw-01", "firewall", "internet", "isr4321-gw",
    "load_balancer", "printer", "router", "server", "storage", "switch",
    "unknown", "wireless_ap", "wireless_controller", "workstation">>
StrRank(s) == CHOOSE i \in DOMAIN StringOrder : StringOrder[i] = s
StrLess(a, b) == StrRank(a) < StrRank(b)

\* key=lambda x: (self._role_priority(x["role"]), x["type"], x["name"])
SortKey(x) == <<RolePriority(x.role), x.type, x.name>>
\* the order of Python tuples (int, str, str)
KeyLess(a, b) ==
  \/ a[1] < b[1]
  \/ a[1] = b[1] /\ StrLess(a[2], b[2])
  \/ a[1] = b[1] /\ a[2] = b[2] /\ StrLess(a[3], b[3])

\* list.sort is stable: an element goes behind every element not greater than it
InsertSorted(sorted, x) ==
  LET before == {i \in DOMAIN sorted : ~KeyLess(SortKey(x), SortKey(sorted[i]))}
      n == IF before = {} THEN 0 ELSE CHOOSE i \in before : \A j \in before : j <= i
  IN SubSeq(sorted, 1, n) \o <<x>> \o SubSeq(sorted, n + 1, Len(sorted))
RECURSIVE ListSort(_)
ListSort(list) ==
  IF list = <<>> THEN <<>>
  ELSE InsertSorted(ListSort(SubSeq(list, 1, Len(list) - 1)), list[Len(list)])

GenerateDeviceInventoryOf(devices) ==
  ListSort([i \in DOMAIN devices |-> InventoryEntry(devices[i][1], devices[i][2])])

\* the shapes the resolver is given: contents and ids
Content(name, master_name, properties) ==
  [name |-> name, text |-> "", master_name |-> master_name, properties |-> properties]
ShapeContents ==
  {Content("core-sw-01", "", <<>>), Content("dist-sw-01", "", <<>>),
   Content("access-sw-02", "", <<>>), Content("printer", "", <<>>),
   Content("Shape_5", "router", <<>>),
   Content("isr4321-gw", "", << <<"vendor", "Cisco">> >>),
   Content("", "", <<>>)}
ShapeIds == {"1", "2"}
WithId(id, c) ==
  [id |-> id, name |-> c.name, text |-> c.text, master_name |-> c.master_name,
   properties |-> c.properties]
ContentOf(shape) == Content(shape.name, shape.master_name, shape.properties)
ResolverShapes == {WithId(id, c) : id \in ShapeIds, c \in ShapeContents}
ShapeLists == SeqsUpTo(ResolverShapes, MaxShapes)

\* resolver.resolve_devices(shapes) on the one resolver
ResolveDevices(shapes, addr) ==
  /\ resolve_call.calls < MaxCalls
  /\ LET out == ResolveDevicesOn(shapes, device_cache, addr)
     IN /\ device_cache' = out.device_cache
        /\ resolve_call' = [calls |-> resolve_call.calls + 1, shapes |-> shapes,
                            devices |-> out.devices]
  /\ inventory' = <<>>
  /\ UNCHANGED <<runs, otherThanResolver>>

\* resolver.generate_device_inventory(devices) on the devices returned last
GenerateDeviceInventory ==
  /\ resolve_call.calls > 0
  /\ Len(inventory) < MaxInventories
  /\ inventory' = Append(inventory, GenerateDeviceInventoryOf(resolve_call.devices))
  /\ UNCHANGED <<device_cache, resolve_call, runs, otherThanResolver>>

ResolverNext ==
  \/ /\ resolve_call.calls < MaxCalls
     /\ \E shapes \in ShapeLists, addr \in Addresses : ResolveDevices(shapes, addr)
  \/ GenerateDeviceInventory

ResolverSpec == Init /\ [][ResolverNext]_vars

\* one document: a new resolver resolves its shapes and lists the inventory
InventoryNext ==
  \/ /\ resolve_call.calls = 0
     /\ \E shapes \in ShapeLists, addr \in Addresses : ResolveDevices(shapes, addr)
  \/ GenerateDeviceInventory

InventorySpec == Init /\ [][InventoryNext]_vars

\* two runs, each DeviceResolver().resolve_devices(shapes)
RunContents ==
  {Content("core-sw-01", "", <<>>),
   Content("isr4321-gw", "", << <<"vendor", "Cisco">> >>),
   Content("", "", <<>>)}
RunShapeLists ==
  SeqsUpTo({WithId(id, c) : id \in ShapeIds, c \in RunContents}, MaxShapes)

ParseRun(k, shapes, addr) ==
  /\ ~runs[k].done
  /\ runs' = [runs EXCEPT ![k] =
                [done |-> TRUE, shapes |-> shapes,
                 devices |-> ResolveDevicesOn(shapes, <<>>, addr).devices]]
  /\ UNCHANGED <<device_cache, resolve_call, inventory, otherThanResolver>>

RunsNext ==
  \E k \in {1, 2}, shapes \in RunShapeLists, addr \in Addresses : ParseRun(k, shapes, addr)

RunsSpec == Init /\ [][RunsNext]_vars

\* ------------------------------------------------------------ network metrics
\* generator/src/generator.py; a Python number is kept as a fraction in lowest
\* terms, [num, den] with den > 0
RECURSIVE Gcd(_, _)
Gcd(a, b) == IF b = 0 THEN a ELSE Gcd(b, a % b)
Frac(n, d) == IF n = 0 THEN [num |-> 0, den |-> 1]
              ELSE [num |-> n \div Gcd(n, d), den |-> d \div Gcd(n, d)]
Zero == Frac(0, 1)
\* a / b of two fractions, b not zero
Div(a, b) == Frac(a.num * b.den, a.den * b.num)
IsPositive(a) == a.num > 0

\* the share of connections that falls to one device
AvgConnectionsPerEnd(num_connections, num_devices) ==
  IF num_devices > 0 THEN Frac(num_connections, num_devices) ELSE Zero

\* avg_connections = (2 * num_connections / num_devices) if num_devices > 0 else 0
AvgConnections(num_connections, num_devices) ==
  IF num_devices > 0 THEN Frac(2 * num_connections, num_devices) ELSE Zero

\* possible_connections = num_devices * (num_devices - 1) / 2
\* density = (num_connections / possible_connections) if possible_connections > 0 else 0
Density(num_connections, num_devices) ==
  LET possible_connections == Frac(num_devices * (num_devices - 1), 2)
  IN IF IsPositive(possible_connections)
     THEN Div(Frac(num_connections, 1), possible_connections)
     ELSE Zero

CalculateNetworkMetricsOf(num_devices, num_connections) ==
  [avg_connections_per_device |-> AvgConnections(num_connections, num_devices),
   network_density |-> Density(num_connections, num_devices),
   total_devices |-> num_devices,
   total_connections |-> num_connections]

\* the diagram data grows by a shape or by a connection
AddShape ==
  /\ topology.shapes < MaxDevices
  /\ topology' = [topology EXCEPT !.shapes = @ + 1]
  /\ UNCHANGED <<network_metrics, otherThanMetrics>>

AddConnection ==
  /\ topology.connections < MaxLinks
  /\ topology' = [topology EXCEPT !.connections = @ + 1]
  /\ UNCHANGED <<network_metrics, otherThanMetrics>>

\* _process_diagram_data: self._calculate_network_metrics(shapes, connections)
CalculateNetworkMetrics ==
  /\ network_metrics' = <<CalculateNetworkMetricsOf(topology.shapes, topology.connections)>>
  /\ UNCHANGED <<topology, otherThanMetrics>>

MetricsNext == AddShape \/ AddConnection \/ CalculateNetworkMetrics

MetricsSpec == Init /\ [][MetricsNext]_vars

\* ------------------------------------------- parse worker: concurrent tasks
\* MessageQueue.consume starts process_parse_request for every delivery
\* without waiting for the one before; a task runs alone between two awaits
\* (download_file, upload_file, publish).  The tasks share the service's
\* VisioParser, the disk, the bucket and the channel.
TaskDocs == {"d1", "d2"}
\* a parse request and the bytes the uploads bucket holds behind its file_path
TaskRequests == [document_id : TaskDocs, project_id : {"p1"}, content : FileContents]
TempPath(i) == <<"tmp", i>>
TempPaths == { TempPath(i) : i \in 1..MaxHandlers }

\* the message is validated and download_file is awaited
TaskReceive(h, m) ==
  /\ tasks[h].pc = "idle"
  /\ tasks' = [tasks EXCEPT ![h] = [pc |-> "download", message |-> m]]
  /\ UNCHANGED <<visio_file, temp_files, parsed_objects, completions, otherThanTasks>>

\* the diagram _parse_vsdx reads: its local vis, which it has also assigned
\* to self.visio_file
VisioReadShared(shared_before, opened) ==
  IF shared_before = NULL THEN opened ELSE shared_before
VisioRead(shared_before, opened) == opened

\* download_file has returned: the bytes go to a new temporary file, which
\* parse_file opens and parses; the result is enriched, tagged and
\* serialised, and upload_file is awaited (a parse error unlinks the file
\* and awaits the publish of the failure)
TaskParse(h, tmp) ==
  /\ tasks[h].pc = "download"
  /\ tmp \notin DOMAIN temp_files
  /\ LET m == tasks[h].message
         on_disk == Put(temp_files, tmp, m.content)
         diagram == VisioRead(visio_file, on_disk[tmp])
     IN /\ visio_file' = on_disk[tmp]
        /\ IF ParseRaises(diagram)
           THEN /\ temp_files' = temp_files
                /\ tasks' = [tasks EXCEPT ![h] =
                     [pc |-> "publish_failed", message |-> m, temp_path |-> tmp]]
           ELSE /\ temp_files' = on_disk
                /\ tasks' = [tasks EXCEPT ![h] =
                     [pc |-> "upload", message |-> m, temp_path |-> tmp,
                      parsed_data |-> TopologyArtifact(diagram, tmp, m.document_id, m.project_id)]]
  /\ UNCHANGED <<parsed_objects, completions, otherThanTasks>>

\* upload_file has stored the artifact; the completion publish is awaited
TaskUpload(h) ==
  /\ tasks[h].pc = "upload"
  /\ parsed_objects' = Put(parsed_objects, ParsedPath(tasks[h].message.document_id),
                           tasks[h].parsed_data)
  /\ tasks' = [tasks EXCEPT ![h].pc = "publish"]
  /\ UNCHANGED <<visio_file, temp_files, completions, otherThanTasks>>

\* publish has returned: the temporary file is unlinked and the task ends
TaskPublish(h) ==
  /\ tasks[h].pc = "publish"
  /\ LET m == tasks[h].message
         completed == ParseCompleted(m.document_id, m.project_id,
                                     ParsedPath(m.document_id), tasks[h].parsed_data)
     IN /\ completions' = Append(completions, completed)
        /\ tasks' = [tasks EXCEPT ![h] =
             [pc |-> "done", message |-> m, temp_path |-> tasks[h].temp_path,
              parsed_data |-> tasks[h].parsed_data, completion |-> completed]]
  /\ temp_files' = [x \in DOMAIN temp_files \ {tasks[h].temp_path} |-> temp_files[x]]
  /\ UNCHANGED <<visio_file, parsed_objects, otherThanTasks>>

\* the failure message of the except branch has been published
TaskPublishFailed(h) ==
  /\ tasks[h].pc = "publish_failed"
  /\ LET m == tasks[h].message
         failed == [document_id |-> m.document_id, project_id |-> m.project_id,
                    status |-> "failed", error |-> "parse failed"]
     IN /\ completions' = Append(completions, failed)
        /\ tasks' = [tasks EXCEPT ![h] =
             [pc |-> "done", message |-> m, temp_path |-> tasks[h].temp_path,
              completion |-> failed]]
  /\ UNCHANGED <<visio_file, temp_files, parsed_objects, otherThanTasks>>

TasksNext ==
  \/ \E h \in 1..MaxHandlers, m \in TaskRequests : TaskReceive(h, m)
  \/ \E h \in 1..MaxHandlers, tmp \in TempPaths : TaskParse(h, tmp)
  \/ \E h \in 1..MaxHandlers : TaskUpload(h)
  \/ \E h \in 1..MaxHandlers : TaskPublish(h)
  \/ \E h \in 1..MaxHandlers : TaskPublishFailed(h)
TasksSpec == Init /\ [][TasksNext]_vars

\* ================================================== documentation generator
\* generator/src/generator.py: the enhanced model every format is rendered from


\* the devices a diagram may hold, in drawing order, and an endpoint id that
\* no shape of the diagram carries
NodeNames == <<"Router", "Switch", "Server", "Firewall", "Printer">>
NodeIds == <<"1", "2", "3", "4", "5">>
Dangling == "9"
Node(i) == [id |-> NodeIds[i], name |-> NodeNames[i]]
\* two pages of one document number their shapes alike
TwoPages == <<Node(1), [id |-> NodeIds[1], name |-> NodeNames[2]]>>
NodeLists == { [i \in 1..k |-> Node(i)] : k \in 0..MaxNodes } \cup {TwoPages}
EndpointIds == { NodeIds[i] : i \in 1..MaxNodes } \cup {Dangling}
Edges == [source_id : EndpointIds, target_id : EndpointIds]
EdgeLists == SeqsUpTo(Edges, MaxEdges)

\* device_lookup = {shape["id"]: shape for shape in shapes}
RECURSIVE DeviceLookupFrom(_, _)
DeviceLookupFrom(lookup, shapes) ==
  IF shapes = <<>> THEN lookup
  ELSE DeviceLookupFrom(DictSet(lookup, Head(shapes).id, Head(shapes)), Tail(shapes))
DeviceLookup(shapes) == DeviceLookupFrom(<<>>, shapes)

\* connection_count[device_id] += 1 on a defaultdict(int)
Increment(connection_count, device_id) ==
  DictSet(connection_count, device_id,
          IF DictHas(connection_count, device_id)
          THEN DictGet(connection_count, device_id) + 1 ELSE 1)

\* the body of the loop of _calculate_connection_stats for one connection
CountEndpoints(connection_count, conn, device_lookup) ==
  LET after_source == IF DictHas(device_lookup, conn.source_id)
                      THEN Increment(connection_count, conn.source_id)
                      ELSE connection_count
  IN IF DictHas(device_lookup, conn.target_id)
     THEN Increment(after_source, conn.target_id) ELSE after_source

RECURSIVE ConnectionStatsFrom(_, _, _)
ConnectionStatsFrom(connection_count, connections, device_lookup) ==
  IF connections = <<>> THEN connection_count
  ELSE ConnectionStatsFrom(CountEndpoints(connection_count, Head(connections), device_lookup),
                           Tail(connections), device_lookup)
CalculateConnectionStats(connections, device_lookup) ==
  ConnectionStatsFrom(<<>>, connections, device_lookup)

\* device.get("type", "Unknown") and device.get("name", device_id)
TypeOfDevice(device) == IF "type" \in DOMAIN device THEN device.type ELSE "Unknown"

\* list.sort(key=connections, reverse=True): descending, equal keys keep
\* the order they had in the list
InsertByConnectionsAscending(sorted, d) ==
  LET before == { i \in DOMAIN sorted : sorted[i].connections <= d.connections }
      k == Cardinality(before)
  IN SubSeq(sorted, 1, k) \o <<d>> \o SubSeq(sorted, k + 1, Len(sorted))
InsertByConnections(sorted, d) ==
  LET before == { i \in DOMAIN sorted : sorted[i].connections >= d.connections }
      k == Cardinality(before)
  IN SubSeq(sorted, 1, k) \o <<d>> \o SubSeq(sorted, k + 1, Len(sorted))
RECURSIVE SortByConnections(_, _)
SortByConnections(sorted, devices) ==
  IF devices = <<>> THEN sorted
  ELSE SortByConnections(InsertByConnections(sorted, Head(devices)), Tail(devices))

GetMostConnectedDevices(connection_stats, device_lookup) ==
  LET devices_with_connections ==
        [i \in DOMAIN connection_stats |->
           LET device_id == connection_stats[i][1]
               device == DictGet(device_lookup, device_id)
           IN [id |-> device_id, name |-> device.name, type |-> TypeOfDevice(device),
               connections |-> connection_stats[i][2]]]
  IN SortByConnections(<<>>, devices_with_connections)

RECURSIVE IsolatedFrom(_, _)
IsolatedFrom(items, connection_stats) ==
  IF items = <<>> THEN <<>>
  ELSE LET device_id == Head(items)[1]
           device == Head(items)[2]
           rest == IsolatedFrom(Tail(items), connection_stats)
       IN IF \/ ~DictHas(connection_stats, device_id)
             \/ DictGet(connection_stats, device_id) = 0
          THEN <<[id |-> device_id, name |-> device.name, type |-> TypeOfDevice(device)]>> \o rest
          ELSE rest
GetIsolatedDevices(connection_stats, device_lookup) ==
  IsolatedFrom(device_lookup, connection_stats)

RECURSIVE SumValues(_)
SumValues(d) == IF d = <<>> THEN 0 ELSE Head(d)[2] + SumValues(Tail(d))
MaxValue(d) == CHOOSE m \in { d[i][2] : i \in DOMAIN d } : \A i \in DOMAIN d : d[i][2] <= m

\* _identify_network_type: thresholds on 2 * connections / devices
IdentifyNetworkType(shapes, connections) ==
  IF shapes = <<>> THEN "Empty"
  ELSE IF connections = <<>> THEN "Disconnected"
  ELSE LET c2 == 2 * Len(connections)
           n == Len(shapes)
       IN IF c2 > 4 * n THEN "Mesh"
          ELSE IF 2 * c2 > 5 * n THEN "Hybrid"
          ELSE IF 2 * c2 > 3 * n THEN "Star"
          ELSE "Bus"

\* _identify_topology_pattern: max, average and all() over connection_stats
IdentifyTopologyPattern(connection_stats) ==
  IF connection_stats = <<>> THEN "None"
  ELSE IF MaxValue(connection_stats) * Len(connection_stats) > 3 * SumValues(connection_stats)
       THEN "Hub and Spoke"
  ELSE IF \A i \in DOMAIN connection_stats : connection_stats[i][2] >= 2 THEN "Redundant"
  ELSE "Hierarchical"

\* _assess_redundancy_level
AssessRedundancyLevel(shapes, connections) ==
  IF shapes = <<>> \/ connections = <<>> THEN "None"
  ELSE LET c2 == 2 * Len(connections)
           n == Len(shapes)
       IN IF c2 >= 3 * n THEN "High"
          ELSE IF c2 >= 2 * n THEN "Medium"
          ELSE IF 2 * c2 >= 3 * n THEN "Low"
          ELSE "None"

\* _identify_high_density_areas: devices above twice the average of connection_stats
RECURSIVE HighDensityFrom(_, _, _)
HighDensityFrom(items, connection_stats, device_lookup) ==
  IF items = <<>> THEN <<>>
  ELSE LET device_id == Head(items)[1]
           conn_count == Head(items)[2]
           device == DictGet(device_lookup, device_id)
           rest == HighDensityFrom(Tail(items), connection_stats, device_lookup)
       IN IF conn_count * Len(connection_stats) > 2 * SumValues(connection_stats)
          THEN <<[id |-> device_id, name |-> device.name, type |-> TypeOfDevice(device),
                  connections |-> conn_count]>> \o rest
          ELSE rest
IdentifyHighDensityAreas(connection_stats, device_lookup) ==
  HighDensityFrom(connection_stats, connection_stats, device_lookup)

\* dict.get(key, default)
GetOr(d, k, default) == IF k \in DOMAIN d THEN d[k] ELSE default

\* shape["connections_count"] = connection_stats.get(shape["id"], 0)
WithConnectionsCount(shape, connection_stats) ==
  Put(shape, "connections_count",
      IF DictHas(connection_stats, shape.id) THEN DictGet(connection_stats, shape.id) ELSE 0)

\* _process_diagram_data: the copy of the diagram with the calculated
\* statistics; the shapes are the diagram's own dictionaries, so the counts
\* written last show in the model
ProcessDiagramData(data) ==
  LET shapes == data.shapes
      connections == data.connections
      device_lookup == DeviceLookup(shapes)
      connection_stats == CalculateConnectionStats(connections, device_lookup)
      metrics == CalculateNetworkMetricsOf(Len(shapes), Len(connections))
      most_connected_devices == GetMostConnectedDevices(connection_stats, device_lookup)
  IN Update(data,
       [project_name |-> GetOr(data, "project_name", "Network Infrastructure Implementation"),
        shapes |-> [i \in DOMAIN shapes |-> WithConnectionsCount(shapes[i], connection_stats)],
        avg_connections_per_device |-> metrics.avg_connections_per_device,
        network_density |-> metrics.network_density,
        most_connected_device |->
          IF most_connected_devices # <<>> THEN Head(most_connected_devices)
          ELSE [name |-> "N/A", connections |-> 0],
        most_connected_devices |-> most_connected_devices,
        isolated_devices |-> GetIsolatedDevices(connection_stats, device_lookup),
        network_type |-> IdentifyNetworkType(shapes, connections),
        topology_pattern |-> IdentifyTopologyPattern(connection_stats),
        redundancy_level |-> AssessRedundancyLevel(shapes, connections),
        high_density_areas |-> IdentifyHighDensityAreas(connection_stats, device_lookup)])

\* _apply_organization_branding
ApplyOrganizationBranding(data, organization_config) ==
  Update(data,
    [organization_name |-> GetOr(organization_config, "name", ""),
     organization_display_name |->
       GetOr(organization_config, "display_name", GetOr(organization_config, "name", "")),
     logo_url |-> GetOr(organization_config, "logo_url", ""),
     branding |->
       [primary_color |-> GetOr(organization_config, "primary_color", "#1e3c72"),
        font_family |-> GetOr(organization_config, "default_font_family", "Arial")]])

\* _apply_template_config: the template settings, then the template's colours
\* and fonts over the branding
ApplyTemplateConfig(data, template_config) ==
  LET with_template ==
        Update(data,
          [template |->
             [template_name |-> GetOr(template_config, "name", "Default Template"),
              template_version |-> GetOr(template_config, "version", "1.0"),
              color_scheme |-> GetOr(template_config, "color_scheme", EmptyStore),
              font_config |-> GetOr(template_config, "font_config", EmptyStore)]])
      color_scheme == GetOr(template_config, "color_scheme", EmptyStore)
      font_config == GetOr(template_config, "font_config", EmptyStore)
      with_colors ==
        IF DOMAIN color_scheme # {}
        THEN Put(with_template, "branding",
                 Update(GetOr(with_template, "branding", EmptyStore), color_scheme))
        ELSE with_template
  IN IF DOMAIN font_config # {}
     THEN LET branding == GetOr(with_colors, "branding", EmptyStore)
          IN Put(with_colors, "branding",
                 Update(branding,
                   [font_family |-> GetOr(font_config, "primary_font",
                                          GetOr(branding, "font_family", "Arial")),
                    font_size |-> GetOr(font_config, "base_size",
                                        GetOr(branding, "font_size", "14px"))]))
     ELSE with_colors

\* _map_design_to_type
DesignTypes ==
  [collapsed_core |-> "Collapsed Core Architecture", three_tier |-> "Three-Tier Hierarchical",
   spine_leaf |-> "Spine-Leaf Data Center", hub_spoke |-> "Hub and Spoke",
   mesh |-> "Mesh Topology", star |-> "Star Topology", ring |-> "Ring Topology",
   bus |-> "Bus Topology", hybrid |-> "Hybrid Architecture", dmz |-> "DMZ/Security-Focused",
   campus |-> "Campus Network", wan |-> "WAN/Branch Network",
   not_sure |-> "AI-Analyzed Topology"]
MapDesignToType(design) == GetOr(DesignTypes, design, "Custom Architecture")

\* the network-design branch of _merge_supplemental_data
MergeDesignLiterally(merged, design_choice) ==
  Update(merged, [network_design_pattern |-> design_choice,
                  network_type |-> MapDesignToType(design_choice)])
MergeDesign(merged, design_choice) ==
  IF design_choice = "not_sure"
  THEN Update(merged, [network_design_pattern |-> "AI-Inferred",
                       network_type |-> "AI-Analyzed Topology",
                       requires_ai_analysis |-> TRUE])
  ELSE Update(merged, [network_design_pattern |-> design_choice,
                       network_type |-> MapDesignToType(design_choice)])

\* detail_lookup = {d.get("name"): d for d in device_details if d.get("name")}
RECURSIVE DetailLookupFrom(_, _)
DetailLookupFrom(lookup, device_details) ==
  IF device_details = <<>> THEN lookup
  ELSE LET d == Head(device_details)
       IN DetailLookupFrom(IF Falsy(Get(d, "name")) THEN lookup
                           ELSE DictSet(lookup, d.name, d),
                           Tail(device_details))

\* the body of the loop of _merge_device_details for one shape with details
ShapeWithDetails(shape, details) ==
  LET with_model ==
        IF "model" \in DOMAIN details
        THEN IF details.model = "Not Sure" THEN Put(shape, "model_needs_inference", TRUE)
             ELSE Put(shape, "model", details.model)
        ELSE shape
      with_ip ==
        IF ~Falsy(Get(details, "ip"))
        THEN Put(with_model, "properties",
                 Put(GetOr(with_model, "properties", EmptyStore), "ip_address", details.ip))
        ELSE with_model
  IN IF "role" \in DOMAIN details
     THEN IF details.role = "Not Sure" THEN Put(with_ip, "role_needs_inference", TRUE)
          ELSE Put(with_ip, "role", details.role)
     ELSE with_ip
NeedsInference(details) ==
  \/ "model" \in DOMAIN details /\ details.model = "Not Sure"
  \/ "role" \in DOMAIN details /\ details.role = "Not Sure"

RECURSIVE DevicesNeedingInference(_, _)
DevicesNeedingInference(shapes, detail_lookup) ==
  IF shapes = <<>> THEN <<>>
  ELSE LET name == Get(Head(shapes), "name")
           rest == DevicesNeedingInference(Tail(shapes), detail_lookup)
       IN IF ~Falsy(name) /\ DictHas(detail_lookup, name)
             /\ NeedsInference(DictGet(detail_lookup, name))
          THEN <<name>> \o rest ELSE rest

\* _merge_device_details
MergeDeviceDetails(data, device_details) ==
  LET detail_lookup == DetailLookupFrom(<<>>, device_details)
      shapes == GetOr(data, "shapes", <<>>)
      updated ==
        [i \in DOMAIN shapes |->
           LET name == Get(shapes[i], "name")
           IN IF ~Falsy(name) /\ DictHas(detail_lookup, name)
              THEN ShapeWithDetails(shapes[i], DictGet(detail_lookup, name))
              ELSE shapes[i]]
      devices_needing_inference == DevicesNeedingInference(shapes, detail_lookup)
      with_shapes == IF "shapes" \in DOMAIN data THEN Put(data, "shapes", updated) ELSE data
  IN IF devices_needing_inference # <<>>
     THEN Put(with_shapes, "devices_needing_ai_inference", devices_needing_inference)
     ELSE with_shapes

\* _parse_vlan_list, of the texts in use: one "id,name" line a text
VlanTexts == [vlan10 |-> <<[id |-> "10", name |-> "Users", description |-> ""]>>]
ParseVlanList(vlan_text) == GetOr(VlanTexts, vlan_text, <<>>)

\* the answers that are texts; device_details is a list of dictionaries
TextAnswers == {"network_design", "vlan_list", "port_channels", "site_details",
                "missing_connections"}

\* _merge_supplemental_data
MergeSupplementalData(data, supplemental) ==
  LET answers == GetOr(supplemental, "answers", EmptyStore)
      Has(k) == k \in DOMAIN answers
      Truthy(k) == Has(k) /\ answers[k] # (IF k \in TextAnswers THEN "" ELSE <<>>)
      m1 == IF Has("network_design") THEN MergeDesign(data, answers.network_design) ELSE data
      m2 == IF Truthy("vlan_list") THEN Put(m1, "vlans", ParseVlanList(answers.vlan_list)) ELSE m1
      m3 == IF Truthy("device_details") THEN MergeDeviceDetails(m2, answers.device_details) ELSE m2
      m4 == IF Truthy("port_channels") THEN Put(m3, "port_channels", answers.port_channels) ELSE m3
      m5 == IF Has("site_details") THEN Put(m4, "site_information", answers.site_details) ELSE m4
      m6 == IF Truthy("missing_connections")
            THEN Put(m5, "logical_connections", answers.missing_connections) ELSE m5
  IN Put(m6, "supplemental_info_source",
         [user_provided |->
            Cardinality({ k \in DOMAIN answers :
                          Truthy(k) /\ (k \in TextAnswers => answers[k] # "not_sure") }),
          ai_inferred |->
            Cardinality({ k \in DOMAIN answers \cap TextAnswers : answers[k] = "not_sure" }),
          total_questions |-> Cardinality(DOMAIN answers)])

\* enhanced_data['ai_analysis'] = ai_analysis
AttachAiAnalysisMerged(enhanced, ai_analysis) ==
  Put(Update(enhanced, ai_analysis), "ai_analysis", ai_analysis)
AttachAiAnalysis(enhanced, ai_analysis) == Put(enhanced, "ai_analysis", ai_analysis)

\* generate_documentation, up to the dispatch on the format: the model the
\* document is rendered from
EnhancedData(diagram, ai_analysis, supplemental_data, template_config, organization_config) ==
  LET e0 == ProcessDiagramData(diagram)
      e1 == IF DOMAIN organization_config # {}
            THEN ApplyOrganizationBranding(e0, organization_config) ELSE e0
      e2 == IF DOMAIN template_config # {} THEN ApplyTemplateConfig(e1, template_config) ELSE e1
      e3 == IF DOMAIN supplemental_data # {}
            THEN MergeSupplementalData(e2, supplemental_data) ELSE e2
  IN IF DOMAIN ai_analysis # {} THEN AttachAiAnalysis(e3, ai_analysis) ELSE e3

\* the arguments generate_documentation takes beside the diagram and the format
NoArgs ==
  [ai_analysis |-> EmptyStore, supplemental_data |-> EmptyStore,
   template_config |-> EmptyStore, organization_config |-> EmptyStore]
OrganizationConfigs == {EmptyStore, [name |-> "Acme", primary_color |-> "#ff0000"]}
TemplateConfigs ==
  {EmptyStore, [name |-> "Standard", color_scheme |-> [primary_color |-> "#00ff00"]]}
AiAnalyses == {EmptyStore, [summary |-> "core network", network_type |-> "Ring Topology"]}

\* the answers of a details form for one device: the fields left out, marked
\* "Not Sure" or filled in
OptionalField(k, values) == {EmptyStore} \cup { [x \in {k} |-> v] : v \in values }
DeviceDetails ==
  { Update(Update([name |-> n], m), r) :
      n \in {"Router", "Ghost"},
      m \in OptionalField("model", {"Not Sure", "ISR 4431"}),
      r \in OptionalField("role", {"Not Sure", "core"}) }
FreeTexts ==
  {EmptyStore, [vlan_list |-> "vlan10", port_channels |-> "Po1 between the cores",
                site_details |-> ""]}
Answers ==
  { Update(Update(design, details), texts) :
      design \in OptionalField("network_design", {"not_sure", "mesh"}),
      details \in { IF l = <<>> THEN EmptyStore ELSE [device_details |-> l] :
                    l \in SeqsUpTo(DeviceDetails, MaxDetails) },
      texts \in FreeTexts }
SupplementalData == {EmptyStore} \cup { [answers |-> a] : a \in Answers }
Args ==
  [ai_analysis : AiAnalyses, supplemental_data : SupplementalData,
   template_config : TemplateConfigs, organization_config : OrganizationConfigs]

\* the diagrams the customised calls are made on
Chain ==
  [shapes |-> <<Node(1), Node(2), Node(3)>>,
   connections |-> <<[source_id |-> "1", target_id |-> "2"],
                     [source_id |-> "2", target_id |-> "3"]>>]
Pair ==
  [shapes |-> <<Node(1), Node(2)>>,
   connections |-> <<[source_id |-> "1", target_id |-> "2"]>>]
CustomDiagrams == {Chain, Pair}
Diagrams == [shapes : NodeLists, connections : EdgeLists]

Given(diagram) == [shapes |-> diagram.shapes, connections |-> diagram.connections, given |-> TRUE]
Diagram == [shapes |-> diagram_data.shapes, connections |-> diagram_data.connections]
Rendered(args) ==
  [args |-> args,
   model |-> EnhancedData(Diagram, args.ai_analysis, args.supplemental_data,
                          args.template_config, args.organization_config)]

\* a parsed diagram reaches the generator
GiveDiagram(diagram) ==
  /\ GeneratorIdle
  /\ diagram_data' = Given(diagram)
  /\ UNCHANGED <<enhanced_data, otherThanGenerator>>

\* generate_documentation(diagram_data, output_format)
GenerateDefault ==
  /\ diagram_data.given
  /\ enhanced_data = <<>>
  /\ enhanced_data' = <<Rendered(NoArgs)>>
  /\ UNCHANGED <<diagram_data, otherThanGenerator>>

\* generate_documentation(diagram_data, output_format, ai_analysis,
\* supplemental_data, template_config, organization_config)
GenerateCustomised(args) ==
  /\ diagram_data.given
  /\ enhanced_data = <<>>
  /\ enhanced_data' = <<Rendered(args)>>
  /\ UNCHANGED <<diagram_data, otherThanGenerator>>

\* the same call on an equal diagram, this time without the ai_analysis argument
GenerateWithoutAi ==
  /\ Len(enhanced_data) = 1
  /\ enhanced_data' =
       Append(enhanced_data,
              Rendered([enhanced_data[1].args EXCEPT !.ai_analysis = EmptyStore]))
  /\ UNCHANGED <<diagram_data, otherThanGenerator>>

StatsNext ==
  \/ /\ GeneratorIdle
     /\ \E diagram \in Diagrams : GiveDiagram(diagram)
  \/ GenerateDefault
StatsSpec == Init /\ [][StatsNext]_vars

CustomNext ==
  \/ /\ GeneratorIdle
     /\ \E diagram \in CustomDiagrams : GiveDiagram(diagram)
  \/ /\ diagram_data.given
     /\ enhanced_data = <<>>
     /\ \E args \in Args : GenerateCustomised(args)
  \/ GenerateWithoutAi
CustomSpec == Init /\ [][CustomNext]_vars

\* the generate requests the worker is sent: the parsed diagram behind
\* parsed_data_path, the formats and what publish_generate_request adds
RequestFormats == {<<"html">>, <<"html", "pdf">>, <<"markdown">>}
ProjectMetadata == {EmptyStore, [project_name |-> "Campus refresh"]}
RequestSupplements ==
  {EmptyStore, [answers |-> [network_design |-> "not_sure"]],
   [answers |-> [network_design |-> "mesh", vlan_list |-> "vlan10"]]}
RenderRequests ==
  [parsed_json : CustomDiagrams, formats : RequestFormats, project_metadata : ProjectMetadata,
   template : TemplateConfigs, organization : OrganizationConfigs,
   ai_analysis : AiAnalyses, supplemental_data : RequestSupplements]

\* process_generation_request, the content of the documents: the parsed
\* data gets a title and the project metadata, and every requested format is
\* rendered by generate_documentation(parsed_data, format_type)
RenderRequest(message) ==
  LET titled == Update([title |-> "Network Documentation - Unknown"], message.parsed_json)
      parsed_json == IF DOMAIN message.project_metadata # {}
                     THEN Update(titled, message.project_metadata) ELSE titled
  IN /\ GeneratorIdle
     /\ diagram_data' = Given(message.parsed_json)
     /\ enhanced_data' =
          [i \in DOMAIN message.formats |->
             [format |-> message.formats[i], request |-> message, args |-> NoArgs,
              model |-> EnhancedData(parsed_json, NoArgs.ai_analysis, NoArgs.supplemental_data,
                                     NoArgs.template_config, NoArgs.organization_config)]]
     /\ UNCHANGED otherThanGenerator

RenderNext == \E message \in RenderRequests : RenderRequest(message)
RenderSpec == Init /\ [][RenderNext]_vars


\* ================================================================= properties
Statuses(msgs) == [i \in DOMAIN msgs |-> msgs[i].status]
RequestedFormats(m) == IF "formats" \in DOMAIN m THEN m.formats[2] ELSE <<"html">>
FormatsOf(files) == {p[1] : p \in files}
GenerateSteps == SelectSeq(lastRun.steps, LAMBDA st : st[1] = "generate")
ParseRunDone == lastRun.handler = "parse" /\ lastRun.decoded
GenerateRunDone == lastRun.handler = "generate" /\ lastRun.decoded
WellFormed(m) == ~Falsy(Get(m, "document_id")) /\ ~Falsy(Get(m, "file_path"))
                 /\ ~Falsy(Get(m, "project_id"))

\* the six transitions of the document state machine, and the creation of the row
AllowedTransitions ==
  { <<ABSENT, UPLOADED>>, <<UPLOADED, PARSING>>, <<PARSING, PARSED>>,
    <<PARSED, GENERATING>>, <<GENERATING, COMPLETED>>, <<PARSING, FAILED>>,
    <<GENERATING, FAILED>> }

\* C1: a document's status changes only along UPLOADED->PARSING,
\* PARSING->PARSED, PARSED->GENERATING, GENERATING->COMPLETED, PARSING->FAILED
\* and GENERATING->FAILED (and from no row to UPLOADED on creation).
C1_StatusTransitions ==
  [][\A d \in Docs : status'[d] = status[d]
                     \/ <<status[d], status'[d]>> \in AllowedTransitions]_vars

ShapeIdsOf(r) == { r.shapes[i].id : i \in DOMAIN r.shapes }

\* C2: every connection of a parse_file result has source_id and target_id
\* among the ids of the shapes of the same result.
C2_ConnectionsReferenceShapes ==
  result # NoResult =>
    \A i \in DOMAIN result.connections :
      /\ result.connections[i].source_id \in ShapeIdsOf(result)
      /\ result.connections[i].target_id \in ShapeIdsOf(result)

\* C3: with a reliable broker and object store, once every message has been
\* handled, a document that was uploaded with a parseable diagram and that no
\* user touched is COMPLETED with a stored path for each requested format.
C3_PipelineCompletes ==
  \A d \in Docs :
    ( /\ upload_pc[d] = "done"
      /\ UploadObjectName(d) \in DOMAIN uploads
      /\ ~ParseRaises(uploads[UploadObjectName(d)])
      /\ Quiet
      /\ manual = 0 )
    => /\ status[d] = COMPLETED
       /\ FormatsOf(generated_files[d]) = Range(DefaultFormats)

\* C4: once the per-format loop is reached every requested format is
\* attempted, in order, whatever happened to the others; in the completion
\* message formats_completed and formats_failed are disjoint and together are
\* the requested formats, and generated_files holds a format exactly when its
\* artifact was uploaded (an unsupported format is always among the failed).
C4_FormatIsolation ==
  (GenerateRunDone /\ lastRun.loop) =>
    LET requested == RequestedFormats(lastRun.msg)
        document_id == Get(lastRun.msg, "document_id")
        c == lastRun.attempts[1]
    IN /\ [i \in DOMAIN GenerateSteps |-> GenerateSteps[i][2]] = requested
       /\ c.status = "completed" =>
            /\ Range(c.formats_completed) \cap Range(c.formats_failed) = {}
            /\ Range(c.formats_completed) \cup Range(c.formats_failed)
                 = Range(requested)
            /\ FormatsOf(c.generated_files) = Range(c.formats_completed)
            /\ \A fmt \in Range(requested) :
                 fmt \in FormatsOf(c.generated_files)
                   <=> \E name \in Uploaded(lastRun.steps) :
                         /\ name \in DOMAIN generated
                         /\ generated[name].format = fmt
                         /\ generated[name].document_id = document_id
                         /\ <<fmt, Buckets.generated \o "/" \o name>>
                              \in c.generated_files
            /\ \A fmt \in Range(requested) \ SupportedFormats :
                 fmt \in Range(c.formats_failed)

\* C4 witness: [html, pdf, bogus] was handled, html and pdf were uploaded and
\* only bogus is reported failed.
C4_Witness ==
  /\ GenerateRunDone /\ lastRun.loop
  /\ RequestedFormats(lastRun.msg) = <<"html", "pdf", "bogus">>
  /\ lastRun.published # <<>>
  /\ lastRun.published[1].status = "completed"
  /\ lastRun.published[1].formats_completed = <<"html", "pdf">>
  /\ lastRun.published[1].formats_failed = <<"bogus">>

\* C5: the generator publishes "failed" only for an exception raised outside
\* the per-format loop: before it (missing path, download failure), so that
\* the loop is never reached, or after it, when the publish call for the
\* completed message itself raised.  Whenever the loop is reached the handler
\* publishes "completed" first, whatever formats failed.
C5_FailedOnlyOutsideLoop ==
  GenerateRunDone =>
    /\ lastRun.loop => /\ lastRun.attempts # <<>>
                       /\ lastRun.attempts[1].status = "completed"
    /\ \A i \in DOMAIN lastRun.attempts :
         lastRun.attempts[i].status = "failed" =>
           \/ ~lastRun.loop /\ i = 1
           \/ /\ lastRun.loop /\ i = 2
              /\ lastRun.attempts[1] \notin Range(lastRun.published)
    /\ Len(lastRun.attempts) <= 2

\* C5 witness: the loop was reached, every requested format failed and
\* "completed" was published.
C5_Witness ==
  /\ GenerateRunDone /\ lastRun.loop
  /\ lastRun.published # <<>>
  /\ lastRun.published[1].status = "completed"
  /\ lastRun.published[1].formats_completed = <<>>
  /\ lastRun.published[1].formats_failed # <<>>

\* what a completed / failed parse-complete message must carry
CompletedCarriesArtifact(c) ==
  /\ c.parsed_path \in Uploaded(lastRun.steps)
  /\ c.parsed_path \in DOMAIN parsed
  /\ c.shape_count = parsed[c.parsed_path].shapes
  /\ c.connection_count = parsed[c.parsed_path].connections
  /\ c.page_count = parsed[c.parsed_path].page_count
FailedCarriesError(c) == ~Falsy(Get(c, "error"))

\* C6 as stated: for a request with document_id, file_path and project_id
\* exactly one parse-complete message is published, completed or failed with
\* an error text, never both; completed only after the upload succeeded, with
\* the counts of the uploaded artifact.
C6_ExactlyOneParseComplete ==
  (ParseRunDone /\ WellFormed(lastRun.msg)) =>
    /\ Len(lastRun.attempts) = 1
    /\ lastRun.attempts[1].status \in {"completed", "failed"}
    /\ lastRun.attempts[1].status = "completed"
         => CompletedCarriesArtifact(lastRun.attempts[1])
    /\ lastRun.attempts[1].status = "failed"
         => FailedCarriesError(lastRun.attempts[1])

\* C6 amended: exactly one message is published, unless publishing the
\* completed message raises, in which case a failed message is published
\* after it; at most one of them reaches the broker; a completed message is
\* published only after the upload succeeded, with the artifact's counts, and
\* a failed one carries an error text.
C6_OneParseCompleteUnlessPublishRaises ==
  (ParseRunDone /\ WellFormed(lastRun.msg)) =>
    /\ Len(lastRun.attempts) \in {1, 2}
    /\ Len(lastRun.published) <= 1
    /\ Len(lastRun.attempts) = 2 =>
         /\ Statuses(lastRun.attempts) = <<"completed", "failed">>
         /\ lastRun.attempts[1] \notin Range(lastRun.published)
    /\ \A i \in DOMAIN lastRun.attempts :
         LET c == lastRun.attempts[i] IN
         /\ c.status \in {"completed", "failed"}
         /\ c.status = "completed" => CompletedCarriesArtifact(c)
         /\ c.status = "failed" => FailedCarriesError(c)

\* C6 witness: a complete request was parsed, uploaded and reported completed.
C6_Witness ==
  /\ ParseRunDone /\ WellFormed(lastRun.msg)
  /\ lastRun.published # <<>>
  /\ lastRun.published[1].status = "completed"
  /\ lastRun.published[1].shape_count = 3
  /\ lastRun.published[1].connection_count = 2

\* C7: a parse request lacking document_id, file_path or project_id causes no
\* download, parse, enrichment or upload; exactly one failed message is
\* published when document_id is present and none when it is absent.
C7_MissingFieldsFailFast ==
  (ParseRunDone /\ ~WellFormed(lastRun.msg)) =>
    /\ lastRun.steps = <<>>
    /\ IF Falsy(Get(lastRun.msg, "document_id"))
       THEN lastRun.attempts = <<>> /\ ~lastRun.raised
       ELSE /\ Statuses(lastRun.attempts) = <<"failed">>
            /\ lastRun.attempts[1].document_id = Get(lastRun.msg, "document_id")
            /\ FailedCarriesError(lastRun.attempts[1])

\* C7 witness: a request with a document_id and no file_path was answered by
\* one failed message, although the diagram it would name is in the store.
C7_Witness ==
  /\ ParseRunDone
  /\ Get(lastRun.msg, "document_id") = "d1"
  /\ Falsy(Get(lastRun.msg, "file_path"))
  /\ Len(lastRun.published) = 1
  /\ lastRun.published[1].status = "failed"
  /\ lastRun.steps = <<>>

\* C8: for every parse or generate request that carries a document id, and
\* whichever step of parsing or generation fails (no publish call raising),
\* the handler returns without raising and has published a completion message.
C8_AlwaysCompletionMessage ==
  ( /\ lastRun.handler \in {"parse", "generate"}
    /\ lastRun.decoded
    /\ ~Falsy(Get(lastRun.msg, "document_id"))
    /\ Len(lastRun.attempts) = Len(lastRun.published) )
  => /\ ~lastRun.raised
     /\ lastRun.published # <<>>
     /\ lastRun.published[1].status \in {"completed", "failed"}

\* C9: a delivered message is acknowledged only if decoding and the callback
\* did not raise; if either raises it is not acknowledged and it is requeued
\* for redelivery.
C9_AckOnlyAfterSuccess ==
  lastRun.handler # "none" =>
    /\ lastRun.disposition = "ack" <=> ~lastRun.raised
    /\ lastRun.raised => lastRun.disposition = "requeue"

\* C10: an artifact's object name depends only on the document id (and the
\* format): over any number of handlings the parsed bucket holds at most one
\* object per document and the generated bucket at most one per document and
\* format, so a repeated handling overwrites and never adds an object.
C10_IdempotentObjectNames ==
  /\ \A k1, k2 \in DOMAIN parsed :
       parsed[k1].document_id = parsed[k2].document_id => k1 = k2
  /\ \A k1, k2 \in DOMAIN generated :
       ( /\ generated[k1].document_id = generated[k2].document_id
         /\ generated[k1].format = generated[k2].format ) => k1 = k2
  /\ lastRun.handler \in {"parse", "generate"} =>
       \A k \in Uploaded(lastRun.steps) :
         k \in (IF lastRun.handler = "parse" THEN DOMAIN parsed
                ELSE DOMAIN generated)

\* C10 witness: a generate request was handled again and its uploads
\* overwrote the objects of the earlier handling.
C10_Witness ==
  /\ lastRun.handler = "generate"
  /\ lastRun.rewrote # {}
  /\ lastRun.rewrote = Uploaded(lastRun.steps)
  /\ Cardinality(DOMAIN generated) = Cardinality(lastRun.rewrote)

\* C11: every property key a shape or a connection had before
\* enrich_parsed_data has the same value after it; the keys added were absent
\* and carry the default looked up for the element.
C11_EnrichKeepsPresentKeys ==
  enriched # <<>> =>
    LET e == enriched[1] IN
    /\ DOMAIN e.shapes = DOMAIN parsed_data.shapes
    /\ DOMAIN e.connections = DOMAIN parsed_data.connections
    /\ \A i \in DOMAIN e.shapes :
         LET before == PropertiesOf(parsed_data.shapes[i])
             after == e.shapes[i].properties IN
         /\ \A k \in DOMAIN before : k \in DOMAIN after /\ after[k] = before[k]
         /\ \A k \in DOMAIN after \ DOMAIN before :
              after[k] = ShapeDefaults(parsed_data.shapes[i])[k]
    /\ \A i \in DOMAIN e.connections :
         LET before == PropertiesOf(parsed_data.connections[i])
             after == e.connections[i].properties IN
         /\ \A k \in DOMAIN before : k \in DOMAIN after /\ after[k] = before[k]
         /\ \A k \in DOMAIN after \ DOMAIN before :
              after[k] = ConnDefaults(parsed_data.connections[i])[k]

\* C11 witness: a shape that had its vendor, and a connection that had its
\* bandwidth, were enriched: the values are kept and the missing keys filled.
C11_Witness ==
  /\ enriched # <<>>
  /\ Len(parsed_data.shapes) >= 1 /\ Len(parsed_data.connections) = 1
  /\ PropertiesOf(parsed_data.shapes[1]) = [vendor |-> "Cisco"]
  /\ enriched[1].shapes[1].properties.vendor = "Cisco"
  /\ enriched[1].shapes[1].properties.model = "Unknown"
  /\ parsed_data.connections[1].properties = [bandwidth |-> "40 Gbps"]
  /\ enriched[1].connections[1].properties.bandwidth = "40 Gbps"
  /\ enriched[1].connections[1].properties.protocol = "TCP/IP"

\* C19: after enrich_parsed_data, metadata.defaults_applied is set exactly
\* when at least one shape or connection property was filled with a default.
C19_NoticeOnlyWhenDefaultsApplied ==
  enriched # <<>> =>
    LET e == enriched[1]
        filled == \/ \E i \in DOMAIN e.shapes :
                       DOMAIN e.shapes[i].properties
                         # DOMAIN PropertiesOf(parsed_data.shapes[i])
                  \/ \E i \in DOMAIN e.connections :
                       DOMAIN e.connections[i].properties
                         # DOMAIN PropertiesOf(parsed_data.connections[i])
    IN ("defaults_applied" \in DOMAIN e.metadata /\ e.metadata.defaults_applied)
         <=> filled

\* the child shapes of all pages, and their connects with the owner's ID,
\* in page order and child order
RECURSIVE ChildShapesOf(_)
ChildShapesOf(pages) ==
  IF pages = <<>> THEN <<>> ELSE Head(pages) \o ChildShapesOf(Tail(pages))
RECURSIVE ConnectsOf(_)
ConnectsOf(child_shapes) ==
  IF child_shapes = <<>> THEN <<>>
  ELSE [i \in DOMAIN Head(child_shapes).connects |->
          [id |-> Head(child_shapes).ID, connect |-> Head(child_shapes).connects[i]]]
       \o ConnectsOf(Tail(child_shapes))

\* C12: when the extraction of a shape or of a connection raises, parse_file
\* still returns, and shapes[] and connections[] hold, in page order and
\* child order, exactly the elements whose extraction did not raise (for
\* connections, those whose two endpoints also resolved).
C12_BadElementsSkipped ==
  result # NoResult =>
    LET good == SelectSeq(ChildShapesOf(vis), LAMBDA sh : ~FloatRaises(sh.x))
        glued == SelectSeq(ConnectsOf(ChildShapesOf(vis)),
                   LAMBDA c : /\ ~PartRaises(c.connect)
                              /\ ~Falsy(c.connect.from_rel)
                              /\ ~Falsy(c.connect.to_rel))
    IN /\ [i \in DOMAIN result.shapes |-> result.shapes[i].id]
            = [i \in DOMAIN good |-> good[i].ID]
       /\ [i \in DOMAIN result.connections |->
             <<result.connections[i].id, result.connections[i].source_id,
               result.connections[i].target_id>>]
            = [i \in DOMAIN glued |->
                 <<glued[i].id, glued[i].connect.from_rel, glued[i].connect.to_rel>>]
       /\ result.page_count = Len(vis)

\* C12 witness: a page whose first shape raised and whose connector has a
\* connect that raised before one that did not: the later shape, the
\* connector and the later connection are all in the result.
C12_Witness ==
  /\ result # NoResult
  /\ Len(vis) = 1 /\ Len(vis[1]) = 3
  /\ FloatRaises(vis[1][1].x)
  /\ Len(vis[1][3].connects) = 2 /\ PartRaises(vis[1][3].connects[1])
  /\ [i \in DOMAIN result.shapes |-> result.shapes[i].id] = <<"2", "3">>
  /\ Len(result.connections) = 1
  /\ result.connections[1].source_id = "2"

\* C13: parse_file applies its checks in a fixed order and returns nothing
\* when one fails: a missing path raises FileNotFoundError whatever its
\* extension; an existing file with an unrecognized extension raises
\* ValueError; an existing recognized file that is not .vsdx, or any
\* recognized file when the vsdx library is unavailable, raises
\* NotImplementedError; otherwise the file is parsed.
C13_ParseFileCheckOrder ==
  parse_call # NoCall =>
    LET recognized == Lower(parse_call.suffix)
                        \in {".vsd", ".vsdx", ".vsdm", ".vss", ".vssx", ".vssm"}
    IN /\ parse_call.error # "none" => result = NoResult
       /\ parse_call.error = "none" => result # NoResult
       /\ parse_call.error =
            ( IF ~parse_call.exists THEN "FileNotFoundError"
              ELSE IF ~recognized THEN "ValueError"
              ELSE IF Lower(parse_call.suffix) # ".vsdx" \/ ~parse_call.vsdx_available
              THEN "NotImplementedError"
              ELSE "none" )

\* C13 witness: a missing .txt path was refused as not found, not as an
\* unsupported format, and nothing was returned.
C13_Witness ==
  /\ parse_call # NoCall
  /\ ~parse_call.exists /\ parse_call.suffix = ".txt"
  /\ parse_call.error = "FileNotFoundError"
  /\ result = NoResult

\* the coarse type of the shape with a given id in a parse result
ShapeTypeOf(r, id) ==
  IF \E i \in DOMAIN r.shapes : r.shapes[i].id = id
  THEN r.shapes[CHOOSE i \in DOMAIN r.shapes : r.shapes[i].id = id].shape_type
  ELSE "unknown"

\* C14: every connection in the output of parse_file carries the type that
\* normalize_connection_type assigns for its connector label and the coarse
\* types of its two endpoint shapes.
C14_ConnectionTypeNormalized ==
  result # NoResult =>
    \A i \in DOMAIN result.connections :
      LET c == result.connections[i] IN
      c.connection_type =
        NormalizeConnectionType(c.properties.label,
                                ShapeTypeOf(result, c.source_id),
                                ShapeTypeOf(result, c.target_id))

\* the device a call returned for a shape, and its classification
DeviceFor(devices, shape) == DictGet(devices, shape.id)
Classification(device) ==
  <<device.device_type, device.device_role, device.vendor, device.model>>
\* no device pattern and no stencil keyword matches the shape
NothingMatchesType(shape) ==
  /\ \A i \in DOMAIN DEVICE_PATTERNS :
       ~Search(DEVICE_PATTERNS[i][1],
               Join(<<LowerOrEmpty(shape.name), LowerOrEmpty(shape.text),
                      LowerOrEmpty(shape.master_name),
                      Join(LowerValues(shape.properties))>>))
  /\ \A keyword \in {"router", "rtr", "switch", "sw", "firewall", "fw", "server", "srv"} :
       ~KeywordIn(keyword, Lower(shape.master_name))
NothingMatchesRole(shape) ==
  \A i \in DOMAIN ROLE_PATTERNS :
    ~Search(ROLE_PATTERNS[i][1],
            Join(<<LowerOrEmpty(shape.name), LowerOrEmpty(shape.text),
                   Join(LowerValues(shape.properties))>>))

\* C15: two shapes with the same name, text, stencil reference and property map,
\* resolved in two separate runs that each use a resolver of their own, get the
\* same device type, role, vendor and model; every resolved shape has one type and
\* one role of the enumerations, unknown when nothing matches
C15_ClassificationDeterministic ==
  /\ \A i \in DOMAIN runs[1].shapes, j \in DOMAIN runs[2].shapes :
       ContentOf(runs[1].shapes[i]) = ContentOf(runs[2].shapes[j])
         => Classification(DeviceFor(runs[1].devices, runs[1].shapes[i]))
              = Classification(DeviceFor(runs[2].devices, runs[2].shapes[j]))
  /\ \A k \in {1, 2} : \A i \in DOMAIN runs[k].shapes :
       LET shape == runs[k].shapes[i]
           device == DeviceFor(runs[k].devices, shape)
       IN /\ device.device_type \in DeviceTypes
          /\ device.device_role \in DeviceRoles
          /\ NothingMatchesType(shape) => device.device_type = "unknown"
          /\ NothingMatchesRole(shape) => device.device_role = "unknown"

\* the order of roles an inventory is to follow
RoleOrder ==
  <<"core", "spine", "distribution", "leaf", "access", "edge", "management", "unknown">>
RoleRank(role) == CHOOSE i \in DOMAIN RoleOrder : RoleOrder[i] = role
InOrder(a, b) ==
  \/ RoleRank(a.role) < RoleRank(b.role)
  \/ a.role = b.role /\ StrLess(a.type, b.type)
  \/ a.role = b.role /\ a.type = b.type /\ ~StrLess(b.name, a.name)
DescribesDevice(entry, devices) ==
  /\ DictHas(devices, entry.id)
  /\ LET device == DictGet(devices, entry.id)
     IN /\ entry.name = device.display_name
        /\ entry.type = device.device_type
        /\ entry.role = device.device_role

\* C16: generate_device_inventory returns one entry per resolved device, ordered by
\* role (core, spine, distribution, leaf, access, edge, management, unknown), then
\* by type, then by name; a second run on the same devices returns the same list
C16_InventoryOrdered ==
  \A k \in DOMAIN inventory :
    LET entries == inventory[k]
        devices == resolve_call.devices
    IN /\ Len(entries) = Len(devices)
       /\ \A i \in DOMAIN devices : \E j \in DOMAIN entries : entries[j].id = devices[i][1]
       /\ \A j \in DOMAIN entries : DescribesDevice(entries[j], devices)
       /\ \A i, j \in DOMAIN entries : i < j => InOrder(entries[i], entries[j])
       /\ entries = inventory[1]

\* two inventories of two devices that the sort had to swap
C16_Witness ==
  /\ Len(inventory) = 2
  /\ Len(inventory[1]) = 2
  /\ inventory[1][1].id = resolve_call.devices[2][1]
  /\ inventory[1][1].role # inventory[1][2].role
  /\ inventory[2] = inventory[1]

DistinctIds(shapes) ==
  \A i, j \in DOMAIN shapes : shapes[i].id = shapes[j].id => i = j

\* C20: every resolve_devices call returns, for each shape of a document, the
\* resolution of that shape's own content, whatever shape an earlier call
\* resolved under the same id
C20_CallResolvesOwnContent ==
  DistinctIds(resolve_call.shapes) =>
    \A i \in DOMAIN resolve_call.shapes :
      LET shape == resolve_call.shapes[i]
          device == DeviceFor(resolve_call.devices, shape)
      IN \E addr \in Addresses :
           /\ Classification(device) = Classification(DetectDevice(shape, addr))
           /\ device.name = DetectDevice(shape, addr).name

\* C17: network_density is 0 when the topology has fewer than two devices, and
\* otherwise a number from 0 to 1
C17_DensityBetweenZeroAndOne ==
  \A i \in DOMAIN network_metrics :
    LET m == network_metrics[i]
        density == m.network_density
    IN IF m.total_devices < 2 THEN density.num = 0
       ELSE 0 <= density.num /\ density.num <= density.den

\* C18: avg_connections_per_device equals 2 * |connections| / |devices|, and is 0
\* when there are no devices
C18_AvgConnectionsPerDevice ==
  \A i \in DOMAIN network_metrics :
    LET m == network_metrics[i]
        avg == m.avg_connections_per_device
    IN /\ avg.den > 0
       /\ IF m.total_devices = 0 THEN avg.num = 0
          ELSE avg.num * m.total_devices = 2 * m.total_connections * avg.den

\* metrics of three devices and two connections: the average is 4/3
C18_Witness ==
  /\ network_metrics # <<>>
  /\ network_metrics[1].total_devices = 3
  /\ network_metrics[1].total_connections = 2
  /\ network_metrics[1].avg_connections_per_device = [num |-> 4, den |-> 3]

\* the coarse type extraction gave a parsed shape
CoarseTypeOf(shape) ==
  IF "shape_type" \in DOMAIN shape THEN shape.shape_type ELSE "unknown"

\* C23: in the parse worker a shape that extraction classified as router, switch,
\* firewall or server gets that type's defaults for its absent keys (a router
\* without a model gets the router model), the generic defaults go to shapes of
\* unknown type only, and a connection gets the defaults of its connection type
C23_TypeDefaultsInParseWorker ==
  enriched # <<>> =>
    /\ \A i \in DOMAIN enriched[1].shapes :
         LET before == PropertiesOf(parsed_data.shapes[i])
             after == enriched[1].shapes[i].properties
             type == CoarseTypeOf(parsed_data.shapes[i])
         IN /\ type \in DOMAIN DeviceDefaults /\ "model" \notin DOMAIN before
                 => after.model = DeviceDefaults[type].model
            /\ "model" \notin DOMAIN before /\ after.model = "Unknown"
                 => type = "unknown"
    /\ \A i \in DOMAIN enriched[1].connections :
         LET before == PropertiesOf(parsed_data.connections[i])
             after == enriched[1].connections[i].properties
             defaults == GetDefaultConnectionProperties(
                           parsed_data.connections[i].connection_type)
         IN \A k \in DOMAIN defaults \ DOMAIN before : after[k] = defaults[k]

\* C30: enrich_parsed_data applied to its own result returns it unchanged
C30_EnrichIdempotent ==
  Len(enriched) = 2 => enriched[2] = enriched[1]

\* a topology whose shape had one property and whose connection had none was
\* enriched twice
C30_Witness ==
  /\ Len(enriched) = 2
  /\ Len(parsed_data.shapes) >= 1 /\ Len(parsed_data.connections) = 1
  /\ PropertiesOf(parsed_data.shapes[1]) = [vendor |-> "Cisco"]
  /\ parsed_data.connections[1].properties = <<>>
  /\ enriched[2].shapes[1].properties.model = "Unknown"
  /\ enriched[2].metadata.defaults_applied


\* the degree of a device: the connection ends that name its id
Degree(id, connections) ==
  Cardinality({ i \in DOMAIN connections : connections[i].source_id = id })
  + Cardinality({ i \in DOMAIN connections : connections[i].target_id = id })
RECURSIVE SumOfCounts(_)
SumOfCounts(shapes) ==
  IF shapes = <<>> THEN 0 ELSE Head(shapes).connections_count + SumOfCounts(Tail(shapes))

\* C25: after _process_diagram_data the connections_count values of all
\* shapes sum to twice the number of connections, which is also
\* avg_connections_per_device times the number of devices
C25_CountsSumToTwiceConnections ==
  \A r \in Range(enhanced_data) :
    /\ SumOfCounts(r.model.shapes) = 2 * Len(r.model.connections)
    /\ r.model.shapes # <<>> =>
         Frac(SumOfCounts(r.model.shapes), Len(r.model.shapes)) = r.model.avg_connections_per_device

\* the pattern the rule gives: degrees of the devices of shapes[], their
\* maximum against three times their average, then every degree at least two
MaxDegree(shapes, connections) ==
  CHOOSE m \in { Degree(shapes[i].id, connections) : i \in DOMAIN shapes } :
    \A i \in DOMAIN shapes : Degree(shapes[i].id, connections) <= m
RECURSIVE SumOfDegrees(_, _)
SumOfDegrees(shapes, connections) ==
  IF shapes = <<>> THEN 0
  ELSE Degree(Head(shapes).id, connections) + SumOfDegrees(Tail(shapes), connections)
HubByDegrees(shapes, connections) ==
  /\ shapes # <<>>
  /\ MaxDegree(shapes, connections) * Len(shapes) > 3 * SumOfDegrees(shapes, connections)
PatternByDegrees(shapes, connections) ==
  IF HubByDegrees(shapes, connections) THEN "Hub and Spoke"
  ELSE IF \A i \in DOMAIN shapes : Degree(shapes[i].id, connections) >= 2 THEN "Redundant"
  ELSE "Hierarchical"

\* C24: topology_pattern is hub and spoke exactly when the largest device
\* degree exceeds three times the average device degree, otherwise redundant
\* exactly when every device of shapes[] has degree two or more, otherwise
\* hierarchical
C24_PatternFollowsDegrees ==
  \A r \in Range(enhanced_data) :
    r.model.topology_pattern = PatternByDegrees(diagram_data.shapes, diagram_data.connections)

\* the place of the first connection end that names the id
FirstSeen(id, connections) ==
  LET ends == { 2 * i - 1 : i \in { j \in DOMAIN connections : connections[j].source_id = id } }
              \cup { 2 * i : i \in { j \in DOMAIN connections : connections[j].target_id = id } }
  IN CHOOSE e \in ends : \A f \in ends : e <= f
IdsOf(devices) == { devices[i].id : i \in DOMAIN devices }
NoRepeat(devices) == \A i, j \in DOMAIN devices : devices[i].id = devices[j].id => i = j

AnswersOf(r) == GetOr(r.args.supplemental_data, "answers", EmptyStore)
DetailsFor(answers, name) ==
  LET device_details == GetOr(answers, "device_details", <<>>)
      named == { i \in DOMAIN device_details : device_details[i].name = name }
  IN IF named = {} THEN EmptyStore
     ELSE device_details[CHOOSE i \in named : \A j \in named : j <= i]
MarkedNotSure(details, field) == field \in DOMAIN details /\ details[field] = "Not Sure"

C28_AiAnalysisOnlyAddsItsField ==
  Len(enhanced_data) = 2 =>
    LET with == enhanced_data[1].model
        without == enhanced_data[2].model
    IN /\ DOMAIN with \ {"ai_analysis"} = DOMAIN without
       /\ \A k \in DOMAIN without : with[k] = without[k]
C28_Witness ==
  /\ Len(enhanced_data) = 2
  /\ DOMAIN enhanced_data[1].args.ai_analysis # {}
  /\ enhanced_data[1].model.ai_analysis = enhanced_data[1].args.ai_analysis
  /\ "ai_analysis" \notin DOMAIN enhanced_data[2].model
  /\ enhanced_data[2].model.topology_pattern = "Hierarchical"


\* C22: the organization branding, the template configuration, the
\* supplemental answers and the AI analysis a generate request carries are
\* merged, in that order, into the enhanced model every requested format is
\* rendered from
C22_RequestConfigurationIsMerged ==
  \A r \in Range(enhanced_data) :
    "request" \in DOMAIN r =>
      LET message == r.request
          model == r.model
      IN /\ DOMAIN message.organization # {} =>
              /\ "organization_name" \in DOMAIN model
              /\ model.organization_name = message.organization.name
         /\ DOMAIN message.template # {} =>
              /\ "template" \in DOMAIN model
              /\ model.template.template_name = message.template.name
              /\ model.branding.primary_color = message.template.color_scheme.primary_color
         /\ DOMAIN message.supplemental_data # {} =>
              "supplemental_info_source" \in DOMAIN model
         /\ DOMAIN message.ai_analysis # {} =>
              /\ "ai_analysis" \in DOMAIN model
              /\ model.ai_analysis = message.ai_analysis


\* C29: at most one generation is in flight for a document: once it is
\* PARSED no second generate request is published for it before the
\* completion of the first is handled, whether the requests come from
\* handle_parse_complete or from generate_documentation
C29_OneGenerationInFlight ==
  \A d \in Docs : Cardinality({ m \in qGen : Get(m, "document_id") = d }) <= 1


\* what process_parse_request persists and publishes for a request that is
\* handled alone
ArtifactAlone(m, tmp) == TopologyArtifact(m.content, tmp, m.document_id, m.project_id)
CompletionAlone(m, tmp) ==
  IF ParseRaises(m.content)
  THEN [document_id |-> m.document_id, project_id |-> m.project_id,
        status |-> "failed", error |-> "parse failed"]
  ELSE ParseCompleted(m.document_id, m.project_id, ParsedPath(m.document_id),
                      ArtifactAlone(m, tmp))
Stored(h) == tasks[h].pc \in {"publish", "done"} /\ "parsed_data" \in DOMAIN tasks[h]

\* C21: two requests handled by one worker whose handlers interleave at the
\* awaits each persist the artifact and publish the completion message they
\* would when handled one after the other; no handler works on what the
\* other one wrote
C21_InterleavedAsSequential ==
  /\ \A h \in 1..MaxHandlers :
       /\ Stored(h) => tasks[h].parsed_data = ArtifactAlone(tasks[h].message, tasks[h].temp_path)
       /\ tasks[h].pc = "done" =>
            tasks[h].completion = CompletionAlone(tasks[h].message, tasks[h].temp_path)
  /\ \A name \in DOMAIN parsed_objects :
       \E h \in 1..MaxHandlers :
         /\ Stored(h)
         /\ name = ParsedPath(tasks[h].message.document_id)
         /\ parsed_objects[name] = ArtifactAlone(tasks[h].message, tasks[h].temp_path)
  /\ \A h, k \in 1..MaxHandlers :
       (h # k /\ "temp_path" \in DOMAIN tasks[h] /\ "temp_path" \in DOMAIN tasks[k]
        /\ tasks[h].pc \in {"upload", "publish"} /\ tasks[k].pc \in {"upload", "publish"})
       => tasks[h].temp_path # tasks[k].temp_path
C21_Witness ==
  /\ tasks[1].pc = "done" /\ tasks[2].pc = "done"
  /\ tasks[1].message.content = "net1" /\ tasks[2].message.content = "net2"
  /\ tasks[1].message.document_id # tasks[2].message.document_id
  /\ Len(completions) = 2
  /\ completions[1] = tasks[2].completion
  /\ completions[2] = tasks[1].completion
  /\ completions[1].shape_count # completions[2].shape_count
  /\ visio_file = "net2"

====
